---- MODULE Spec2Model ----
(***************************************************************************)
(* A model of the nosql-sanitize core engine (packages/core/src):          *)
(* the string / array / object / value sanitizers, the option resolver,    *)
(* the content-type gate and the field orchestrator (handleRequest), and   *)
(* of the Express middleware and the Fastify plugin built on them.         *)
(*                                                                         *)
(* Representation.                                                         *)
(*  - A JavaScript string is a sequence of characters; a character is a    *)
(*    one-character TLA+ string.  "\t" stands for the control characters   *)
(*    (it is also white space for String.prototype.trim).                  *)
(*  - A JavaScript value is a record with a field kind:                    *)
(*      "null" | "undef" | "bool" (b) | "num" (n) | "str" (s)              *)
(*      | "arr" (ref, items) | "obj" (ref, pairs) | "date" (ref)           *)
(*      | "regexp" (ref) | "other" (ref: an object with another prototype) *)
(*      | "function" (ref)                                                 *)
(*    and a call that raises shows as a record of kind "error".            *)
(*    pairs is the sequence of <<key, value>> of a mapping in enumeration  *)
(*    order (Object.keys); ref is the identity of the object.  An object   *)
(*    allocated by a sanitizer has ref = Fresh: it is identical to no      *)
(*    other object.                                                        *)
(*  - A nullable option (maxDepth, maxLength, contentTypes) is a sequence  *)
(*    of length at most one: <<>> is null, <<x>> is the value x.           *)
(*  - A pattern is the set of characters it matches; the combined pattern  *)
(*    (the alternation of the sources) matches the union.                  *)
(***************************************************************************)
EXTENDS Integers, Sequences, FiniteSets, TLC

VARIABLES
    options,   \* the resolved options of the calls
    input,     \* the arguments of the call
    output,    \* what the call returned (NoValue before it)
    again,     \* what sanitizing output once more returned (NoValue before it)
    request,   \* the request object handed to handleRequest
    events,    \* the events handed to the onSanitize hook so far, in order
    calls,     \* the number of calls made so far on the shared options
    pc         \* "start", "done" after the call, "again" after the second call

vars == <<options, input, output, again, request, events, calls, pc>>

(***************************************************************************)
(* Characters and strings                                                  *)
(***************************************************************************)
Letters == {"a", "b", "A"}
ControlChars == {"\t"}
WhiteSpace == {" ", "\t"}

toLowerChar(c) == IF c = "A" THEN "a" ELSE IF c = "J" THEN "j" ELSE c

RECURSIVE Flatten(_)
Flatten(ss) == IF ss = <<>> THEN <<>> ELSE Head(ss) \o Flatten(Tail(ss))

indexOf(s, c) ==
    IF \E i \in 1..Len(s) : s[i] = c
    THEN CHOOSE i \in 1..Len(s) : s[i] = c /\ \A j \in 1..(i - 1) : s[j] # c
    ELSE 0

slice(s, from, to) == SubSeq(s, from, IF to > Len(s) THEN Len(s) ELSE to)

\* a replace that stops after the first match (a pattern without the g flag)
replace_firstOnly(s, pattern, replaceWith) ==
    IF \E i \in 1..Len(s) : s[i] \in pattern
    THEN LET first == CHOOSE i \in 1..Len(s) :
                        s[i] \in pattern /\ \A j \in 1..(i - 1) : s[j] \notin pattern
         IN SubSeq(s, 1, first - 1) \o replaceWith \o SubSeq(s, first + 1, Len(s))
    ELSE s

\* str.replace(pattern, replaceWith) with a global pattern matching single characters
replace(s, pattern, replaceWith) ==
    Flatten([i \in 1..Len(s) |-> IF s[i] \in pattern THEN replaceWith ELSE <<s[i]>>])

trim(s) ==
    IF \A i \in 1..Len(s) : s[i] \in WhiteSpace
    THEN <<>>
    ELSE LET first == CHOOSE i \in 1..Len(s) :
                        s[i] \notin WhiteSpace /\ \A j \in 1..(i - 1) : s[j] \in WhiteSpace
             last == CHOOSE i \in 1..Len(s) :
                        s[i] \notin WhiteSpace /\ \A j \in (i + 1)..Len(s) : s[j] \in WhiteSpace
         IN SubSeq(s, first, last)

toLowerCase(s) == [i \in 1..Len(s) |-> toLowerChar(s[i])]

\* pattern.test(s) after lastIndex = 0
test(pattern, s) == \E i \in 1..Len(s) : s[i] \in pattern

(***************************************************************************)
(* helpers.js                                                              *)
(***************************************************************************)
Null == [kind |-> "null"]
Undefined == [kind |-> "undef"]
Str(s) == [kind |-> "str", s |-> s]
Num(n) == [kind |-> "num", n |-> n]
Bool(b) == [kind |-> "bool", b |-> b]
Fresh == 0
Arr(r, items) == [kind |-> "arr", ref |-> r, items |-> items]
Obj(r, pairs) == [kind |-> "obj", ref |-> r, pairs |-> pairs]
Function(ref) == [kind |-> "function", ref |-> ref]

\* an error a call raises instead of returning
NoSQLSanitizeError(message, type) ==
    [kind |-> "error", name |-> "NoSQLSanitizeError", message |-> message, type |-> type]

\* throw new Error(message) in a function the caller supplies
Error(message) == [kind |-> "error", name |-> "Error", message |-> message]

\* the error of the runtime itself
TypeError == [kind |-> "error", name |-> "TypeError"]

isString(v) == v.kind = "str"
isArray(v) == v.kind = "arr"
isPrimitive(v) == v.kind \in {"null", "bool", "num"}
isDate(v) == v.kind = "date"
isPlainObject(v) == v.kind = "obj"
isObjectEmpty(v) == isPlainObject(v) /\ v.pairs = <<>>

\* EMAIL_RE = /^[a-zA-Z0-9._%+-]+@[a-zA-Z0-9.-]+\.[a-zA-Z]{2,}$/i
LocalChars == Letters \cup {".", "_"}
DomainChars == Letters \cup {"."}
EMAIL_RE_test(s) ==
    \E at \in 2..Len(s) : \E dot \in (at + 2)..(Len(s) - 2) :
        /\ s[at] = "@"
        /\ s[dot] = "."
        /\ \A i \in 1..(at - 1) : s[i] \in LocalChars
        /\ \A i \in (at + 1)..(dot - 1) : s[i] \in DomainChars
        /\ \A i \in (dot + 1)..Len(s) : s[i] \in Letters

isEmail(v) ==
    /\ isString(v)
    /\ Len(v.s) > 5
    /\ indexOf(v.s, "@") > 1
    /\ EMAIL_RE_test(v.s)

\* Boolean(v): the truthiness of a value
Truthy(v) ==
    CASE v.kind \in {"null", "undef"} -> FALSE
      [] v.kind = "bool" -> v.b
      [] v.kind = "num" -> v.n # 0
      [] v.kind = "str" -> v.s # <<>>
      [] OTHER -> TRUE

\* SameValueZero, the equality of Set: objects by identity, the rest by value
SameValueZero(a, b) ==
    IF a.kind \in {"arr", "obj", "date", "regexp", "other"}
    THEN a.kind = b.kind /\ a.ref = b.ref /\ a.ref # Fresh
    ELSE a = b

\* F applied to the value of v: a result that is computed once and then used
\* in several places
With(v, F(_)) == CHOOSE x \in {F(r) : r \in {v}} : TRUE

\* a cleanUrl that strips the suffix and the leading slashes only
cleanUrl_keepTrailing(url) ==
    IF ~isString(url) \/ Len(url.s) = 0 THEN <<>>
    ELSE LET qIdx == indexOf(url.s, "?") - 1
             hIdx == indexOf(url.s, "#") - 1
             atQuery == IF qIdx # -1 /\ qIdx < Len(url.s) THEN qIdx ELSE Len(url.s)
             cut == IF hIdx # -1 /\ hIdx < atQuery THEN hIdx ELSE atQuery
             start == CHOOSE k \in 0..cut :
                        /\ k = cut \/ url.s[k + 1] # "/"
                        /\ \A j \in 0..(k - 1) : url.s[j + 1] = "/"
         IN IF start >= cut THEN <<>> ELSE <<(<<"/">> \o SubSeq(url.s, start + 1, cut))>>

\* cleanUrl: <<>> is null, <<path>> a normalised path.  start and end are the
\* 0-based indexes of the code.
cleanUrl(url) ==
    IF ~isString(url) \/ Len(url.s) = 0 THEN <<>>
    ELSE LET qIdx == indexOf(url.s, "?") - 1
             hIdx == indexOf(url.s, "#") - 1
             atQuery == IF qIdx # -1 /\ qIdx < Len(url.s) THEN qIdx ELSE Len(url.s)
             cut == IF hIdx # -1 /\ hIdx < atQuery THEN hIdx ELSE atQuery
             start == CHOOSE k \in 0..cut :
                        /\ k = cut \/ url.s[k + 1] # "/"
                        /\ \A j \in 0..(k - 1) : url.s[j + 1] = "/"
             end == CHOOSE k \in start..cut :
                        /\ k = start \/ url.s[k] # "/"
                        /\ \A j \in (k + 1)..cut : url.s[j] = "/"
         IN IF start >= end THEN <<>> ELSE <<(<<"/">> \o SubSeq(url.s, start + 1, end))>>

\* a RegExp object: it matches a string that holds source; lastIndex is its cursor
RegExp(ref, source, global, lastIndex) ==
    [kind |-> "regexp", ref |-> ref, source |-> source, global |-> global,
     lastIndex |-> lastIndex]
isRegExp(v) == v.kind = "regexp"

\* pattern.test(s): whether it matched and the cursor it leaves.  A global pattern
\* searches from lastIndex and leaves the end of the match, or 0 after a failure.
regexTest(pattern, s) ==
    LET n == Len(pattern.source)
        from == IF pattern.global THEN pattern.lastIndex ELSE 0
        hits == {i \in 1..(Len(s) - n + 1) :
                    i - 1 >= from /\ SubSeq(s, i, i + n - 1) = pattern.source}
        first == CHOOSE i \in hits : \A j \in hits : i <= j
    IN IF hits = {}
       THEN [found |-> FALSE, lastIndex |-> IF pattern.global THEN 0 ELSE pattern.lastIndex]
       ELSE [found |-> TRUE,
             lastIndex |-> IF pattern.global THEN first - 1 + n ELSE pattern.lastIndex]

(***************************************************************************)
(* constants.js, index.js: the options                                     *)
(***************************************************************************)
PATTERNS == <<{"$"}, ControlChars>>

DEFAULT_OPTIONS ==
    [replaceWith |-> <<>>,
     removeMatches |-> FALSE,
     sanitizeObjects |-> <<"body", "query">>,
     contentTypes |-> << <<"j">>, <<"f">> >>,
     mode |-> "auto",
     skipRoutes |-> <<>>,
     customSanitizer |-> <<>>,
     onSanitize |-> <<>>,
     recursive |-> TRUE,
     removeEmpty |-> FALSE,
     maxDepth |-> <<>>,
     patterns |-> PATTERNS,
     allowedKeys |-> <<>>,
     deniedKeys |-> <<>>,
     stringOptions |-> [trim |-> FALSE, lowercase |-> FALSE, maxLength |-> <<>>],
     arrayOptions |-> [filterNull |-> FALSE, distinct |-> FALSE]]

Range(f) == {f[i] : i \in DOMAIN f}
Merge(defaults, user) ==
    [k \in DOMAIN defaults \cup DOMAIN user |->
        IF k \in DOMAIN user THEN user[k] ELSE defaults[k]]

\* userOptions is a record holding the fields the caller sets.  contentTypes is
\* <<>> for null and <<list>> for a list of MIME types.
resolveOptions(userOptions) ==
    LET has(f) == f \in DOMAIN userOptions
        opts == Merge(DEFAULT_OPTIONS, userOptions)
        strOpts == Merge(DEFAULT_OPTIONS.stringOptions,
                         IF has("stringOptions") THEN userOptions.stringOptions ELSE <<>>)
        arrOpts == Merge(DEFAULT_OPTIONS.arrayOptions,
                         IF has("arrayOptions") THEN userOptions.arrayOptions ELSE <<>>)
        rawContentTypes == IF has("contentTypes") THEN userOptions.contentTypes
                           ELSE <<DEFAULT_OPTIONS.contentTypes>>
        rawSkipRoutes == IF has("skipRoutes") THEN userOptions.skipRoutes ELSE <<>>
        regexSkipRoutes == SelectSeq(rawSkipRoutes, isRegExp)
        exactSkipRoutes == {cleanUrl(route)[1] :
                                route \in {r \in Range(rawSkipRoutes) :
                                              isString(r) /\ cleanUrl(r) # <<>>}}
    IN [replaceWith |-> opts.replaceWith,
        removeMatches |-> opts.removeMatches,
        sanitizeObjects |-> opts.sanitizeObjects,
        mode |-> opts.mode,
        skipRoutes |-> [exact |-> exactSkipRoutes, regex |-> regexSkipRoutes],
        customSanitizer |-> opts.customSanitizer,
        onSanitize |-> IF has("onSanitize") THEN userOptions.onSanitize ELSE <<>>,
        recursive |-> opts.recursive,
        removeEmpty |-> opts.removeEmpty,
        patterns |-> opts.patterns,
        stringOptions |-> strOpts,
        arrayOptions |-> arrOpts,
        _combinedPattern |-> UNION Range(opts.patterns),
        _lastIndex |-> 0,
        contentTypes |-> IF rawContentTypes = <<>> THEN <<>>
                         ELSE <<{toLowerCase(ct) : ct \in Range(rawContentTypes[1])}>>,
        allowedKeys |-> Range(opts.allowedKeys),
        deniedKeys |-> Range(opts.deniedKeys),
        maxDepth |-> IF has("maxDepth") THEN userOptions.maxDepth ELSE <<>>]

(***************************************************************************)
(* sanitizers.js                                                           *)
(***************************************************************************)
RECURSIVE sanitizeValue(_, _, _, _)
RECURSIVE sanitizeArray(_, _, _)
RECURSIVE sanitizeObject(_, _, _)
RECURSIVE sanitizeItems(_, _, _)
RECURSIVE sanitizePairs(_, _, _, _)

\* sanitizeString without the email exemption
sanitizeString_noEmailExemption(str, opts, isValue) ==
    IF ~isString(str) THEN str
    ELSE LET replaced == replace(str.s, opts._combinedPattern, opts.replaceWith)
             trimmed == IF opts.stringOptions.trim THEN trim(replaced) ELSE replaced
             lowered == IF opts.stringOptions.lowercase THEN toLowerCase(trimmed) ELSE trimmed
             maxLength == opts.stringOptions.maxLength
             cut == IF maxLength # <<>> /\ maxLength[1] # 0 /\ isValue
                    THEN slice(lowered, 1, maxLength[1]) ELSE lowered
         IN Str(cut)

\* sanitizeString cutting the string before it trims it
sanitizeString_cutFirst(str, opts, isValue) ==
    IF ~isString(str) \/ isEmail(str) THEN str
    ELSE LET replaced == replace(str.s, opts._combinedPattern, opts.replaceWith)
             maxLength == opts.stringOptions.maxLength
             cut == IF maxLength # <<>> /\ maxLength[1] # 0 /\ isValue
                    THEN slice(replaced, 1, maxLength[1]) ELSE replaced
             trimmed == IF opts.stringOptions.trim THEN trim(cut) ELSE cut
             lowered == IF opts.stringOptions.lowercase THEN toLowerCase(trimmed) ELSE trimmed
         IN Str(lowered)

sanitizeString(str, opts, isValue) ==
    IF ~isString(str) \/ isEmail(str) THEN str
    ELSE LET replaced == replace(str.s, opts._combinedPattern, opts.replaceWith)
             trimmed == IF opts.stringOptions.trim THEN trim(replaced) ELSE replaced
             lowered == IF opts.stringOptions.lowercase THEN toLowerCase(trimmed) ELSE trimmed
             maxLength == opts.stringOptions.maxLength
             cut == IF maxLength # <<>> /\ maxLength[1] # 0 /\ isValue
                    THEN slice(lowered, 1, maxLength[1]) ELSE lowered
         IN Str(cut)

\* out.filter(Boolean)
filterBoolean(items) == SelectSeq(items, Truthy)

\* a Set that keeps the last occurrence of every value in place of the first
distinct_keepLast(items) ==
    LET idx == {i \in 1..Len(items) :
                  \A j \in (i + 1)..Len(items) : ~SameValueZero(items[i], items[j])}
        f[i \in 0..Len(items)] ==
            IF i = 0 THEN <<>> ELSE IF i \in idx THEN Append(f[i - 1], items[i]) ELSE f[i - 1]
    IN f[Len(items)]

\* [...new Set(out)]: the first occurrence of every value, in order
RECURSIVE distinctFrom(_, _)
distinctFrom(items, seen) ==
    IF items = <<>> THEN seen
    ELSE distinctFrom(Tail(items),
                      IF \E j \in 1..Len(seen) : SameValueZero(seen[j], Head(items))
                      THEN seen ELSE Append(seen, Head(items)))
distinct(items) == distinctFrom(items, <<>>)

\* a loop that enters the nested containers whatever options.recursive is
sanitizeItems_alwaysRecursive(items, opts, depth) ==
    [i \in 1..Len(items) |-> sanitizeValue(items[i], opts, TRUE, depth)]

\* the loop of sanitizeArray: result[i] for every i
sanitizeItems(items, opts, depth) ==
    [i \in 1..Len(items) |->
        IF ~opts.recursive /\ (isPlainObject(items[i]) \/ isArray(items[i]))
        THEN items[i]
        ELSE sanitizeValue(items[i], opts, TRUE, depth)]

\* filterNull applied to the elements before they are sanitized
sanitizeArray_filterFirst(arr, opts, depth) ==
    LET kept == IF opts.arrayOptions.filterNull THEN filterBoolean(arr.items) ELSE arr.items
        result == sanitizeItems(kept, opts, depth)
        out == IF opts.arrayOptions.distinct THEN distinct(result) ELSE result
    IN Arr(Fresh, out)

\* a sanitizeArray that writes the sanitized elements into the array it is given
sanitizeArray_inPlace(arr, opts, depth) ==
    IF ~isArray(arr) THEN NoSQLSanitizeError(<<"Input must be an array">>, "type_error")
    ELSE
    LET result == sanitizeItems(arr.items, opts, depth)
        filtered == IF opts.arrayOptions.filterNull THEN filterBoolean(result) ELSE result
        out == IF opts.arrayOptions.distinct THEN distinct(filtered) ELSE filtered
    IN Arr(arr.ref, out)

sanitizeArray(arr, opts, depth) ==
    IF ~isArray(arr) THEN NoSQLSanitizeError(<<"Input must be an array">>, "type_error")
    ELSE
    LET result == sanitizeItems(arr.items, opts, depth)
        filtered == IF opts.arrayOptions.filterNull THEN filterBoolean(result) ELSE result
        out == IF opts.arrayOptions.distinct THEN distinct(filtered) ELSE filtered
    IN Arr(Fresh, out)

\* acc[key] = val: a new key is appended, an existing key keeps its place
\* a write that leaves a key that is already there as it is
Put_firstWins(acc, key, val) ==
    IF \E j \in 1..Len(acc) : acc[j][1] = key THEN acc ELSE Append(acc, <<key, val>>)

Put(acc, key, val) ==
    IF \E j \in 1..Len(acc) : acc[j][1] = key
    THEN [j \in 1..Len(acc) |-> IF acc[j][1] = key THEN <<key, val>> ELSE acc[j]]
    ELSE Append(acc, <<key, val>>)

\* the allowedKeys filter ahead of the deniedKeys branch
sanitizePair_allowedFirst(acc, key, val, opts, depth) ==
    LET keyStr == Str(key)
        sanitizedKey == sanitizeString(keyStr, opts, FALSE).s
        sanitizedValue == IF ~opts.recursive /\ (isPlainObject(val) \/ isArray(val))
                          THEN val
                          ELSE sanitizeValue(val, opts, TRUE, depth)
    IN IF opts.allowedKeys # {} /\ key \notin opts.allowedKeys THEN acc
       ELSE IF opts.deniedKeys # {} /\ key \in opts.deniedKeys
       THEN IF isEmail(val) THEN Put(acc, sanitizedKey, val) ELSE acc
       ELSE IF opts.removeMatches /\ test(opts._combinedPattern, key) THEN acc
       ELSE IF opts.removeEmpty /\ sanitizedKey = <<>> THEN acc
       ELSE IF opts.removeMatches /\ isString(val) /\ test(opts._combinedPattern, val.s) THEN acc
       ELSE IF opts.removeEmpty /\ ~Truthy(sanitizedValue) THEN acc
       ELSE Put(acc, sanitizedKey, sanitizedValue)

\* removeMatches testing the sanitized key and value instead of the originals
sanitizePair_testSanitized(acc, key, val, opts, depth) ==
    LET keyStr == Str(key)
        sanitizedKey == sanitizeString(keyStr, opts, FALSE).s
        sanitizedValue == IF ~opts.recursive /\ (isPlainObject(val) \/ isArray(val))
                          THEN val
                          ELSE sanitizeValue(val, opts, TRUE, depth)
    IN IF opts.deniedKeys # {} /\ key \in opts.deniedKeys
       THEN IF isEmail(val) THEN Put(acc, sanitizedKey, val) ELSE acc
       ELSE IF opts.allowedKeys # {} /\ key \notin opts.allowedKeys THEN acc
       ELSE IF opts.removeMatches /\ test(opts._combinedPattern, sanitizedKey) THEN acc
       ELSE IF opts.removeEmpty /\ sanitizedKey = <<>> THEN acc
       ELSE IF opts.removeMatches /\ isString(val)
                /\ test(opts._combinedPattern, sanitizedValue.s) THEN acc
       ELSE IF opts.removeEmpty /\ ~Truthy(sanitizedValue) THEN acc
       ELSE Put(acc, sanitizedKey, sanitizedValue)

\* removeEmpty testing the original key and value instead of the sanitized ones
sanitizePair_emptyOriginal(acc, key, val, opts, depth) ==
    LET keyStr == Str(key)
        sanitizedKey == sanitizeString(keyStr, opts, FALSE).s
        sanitizedValue == IF ~opts.recursive /\ (isPlainObject(val) \/ isArray(val))
                          THEN val
                          ELSE sanitizeValue(val, opts, TRUE, depth)
    IN IF opts.deniedKeys # {} /\ key \in opts.deniedKeys
       THEN IF isEmail(val) THEN Put(acc, sanitizedKey, val) ELSE acc
       ELSE IF opts.allowedKeys # {} /\ key \notin opts.allowedKeys THEN acc
       ELSE IF opts.removeMatches /\ test(opts._combinedPattern, key) THEN acc
       ELSE IF opts.removeEmpty /\ key = <<>> THEN acc
       ELSE IF opts.removeMatches /\ isString(val) /\ test(opts._combinedPattern, val.s) THEN acc
       ELSE IF opts.removeEmpty /\ ~Truthy(val) THEN acc
       ELSE Put(acc, sanitizedKey, sanitizedValue)

\* one iteration of the loop of sanitizeObject: the accumulator after the pair
sanitizePair(acc, key, val, opts, depth) ==
    LET keyStr == Str(key)
        sanitizedKey == sanitizeString(keyStr, opts, FALSE).s
        sanitizedValue == IF ~opts.recursive /\ (isPlainObject(val) \/ isArray(val))
                          THEN val
                          ELSE sanitizeValue(val, opts, TRUE, depth)
    IN IF opts.deniedKeys # {} /\ key \in opts.deniedKeys
       THEN IF isEmail(val) THEN Put(acc, sanitizedKey, val) ELSE acc
       ELSE IF opts.allowedKeys # {} /\ key \notin opts.allowedKeys THEN acc
       ELSE IF opts.removeMatches /\ test(opts._combinedPattern, key) THEN acc
       ELSE IF opts.removeEmpty /\ sanitizedKey = <<>> THEN acc
       ELSE IF opts.removeMatches /\ isString(val) /\ test(opts._combinedPattern, val.s) THEN acc
       ELSE IF opts.removeEmpty /\ ~Truthy(sanitizedValue) THEN acc
       ELSE Put(acc, sanitizedKey, sanitizedValue)

sanitizePairs(pairs, acc, opts, depth) ==
    IF pairs = <<>> THEN acc
    ELSE sanitizePairs(Tail(pairs),
                       sanitizePair(acc, Head(pairs)[1], Head(pairs)[2], opts, depth),
                       opts, depth)

sanitizeObject(obj, opts, depth) ==
    IF ~isPlainObject(obj) THEN NoSQLSanitizeError(<<"Input must be an object">>, "type_error")
    ELSE Obj(Fresh, sanitizePairs(obj.pairs, <<>>, opts, depth))

\* the depth guard off by one: a container at depth maxDepth is still entered
sanitizeValue_guardOffByOne(value, opts, isValue, depth) ==
    IF value.kind \in {"null", "undef"} \/ isPrimitive(value) \/ isDate(value) THEN value
    ELSE IF isString(value) THEN sanitizeString(value, opts, isValue)
    ELSE IF opts.maxDepth # <<>> /\ depth > opts.maxDepth[1] THEN value
    ELSE IF isArray(value) THEN sanitizeArray(value, opts, depth + 1)
    ELSE IF isPlainObject(value) THEN sanitizeObject(value, opts, depth + 1)
    ELSE value

\* the depth guard ahead of the string branch: it stops strings as well
sanitizeValue_guardBeforeStrings(value, opts, isValue, depth) ==
    IF value.kind \in {"null", "undef"} \/ isPrimitive(value) \/ isDate(value) THEN value
    ELSE IF opts.maxDepth # <<>> /\ depth >= opts.maxDepth[1] THEN value
    ELSE IF isString(value) THEN sanitizeString(value, opts, isValue)
    ELSE IF isArray(value) THEN sanitizeArray(value, opts, depth + 1)
    ELSE IF isPlainObject(value) THEN sanitizeObject(value, opts, depth + 1)
    ELSE value

\* a dispatch that hands every object that is not an array to sanitizeObject
sanitizeValue_noPlainCheck(value, opts, isValue, depth) ==
    IF value.kind \in {"null", "undef"} \/ isPrimitive(value) \/ isDate(value) THEN value
    ELSE IF isString(value) THEN sanitizeString(value, opts, isValue)
    ELSE IF opts.maxDepth # <<>> /\ depth >= opts.maxDepth[1] THEN value
    ELSE IF isArray(value) THEN sanitizeArray(value, opts, depth + 1)
    ELSE sanitizeObject(value, opts, depth + 1)

sanitizeValue(value, opts, isValue, depth) ==
    IF value.kind \in {"null", "undef"} \/ isPrimitive(value) \/ isDate(value) THEN value
    ELSE IF isString(value) THEN sanitizeString(value, opts, isValue)
    ELSE IF opts.maxDepth # <<>> /\ depth >= opts.maxDepth[1] THEN value
    ELSE IF isArray(value) THEN sanitizeArray(value, opts, depth + 1)
    ELSE IF isPlainObject(value) THEN sanitizeObject(value, opts, depth + 1)
    ELSE value

(***************************************************************************)
(* sanitizers.js with the state the calls share: the cursor (lastIndex) of *)
(* options._combinedPattern, which carries the g flag, and the events      *)
(* handed to options.onSanitize.  st is [lastIndex, events, raised]; a     *)
(* call returns its value and the state it leaves.  st.raised is <<>>, or  *)
(* <<error>> once something has thrown: no statement runs after a throw,   *)
(* so every caller hands the state on as it is and the value of the call   *)
(* is the error.                                                           *)
(***************************************************************************)
RECURSIVE fxSanitizeValue(_, _, _, _, _)
RECURSIVE fxSanitizeItems(_, _, _, _, _)
RECURSIVE fxSanitizePairs(_, _, _, _, _)
RECURSIVE fxSanitizeObject(_, _, _, _)

\* throw error
Raise(st, error) == [st EXCEPT !.raised = <<error>>]
\* a call that ends by the throw recorded in st
Thrown(st) == [value |-> st.raised[1], st |-> st]

\* _combinedPattern.test(s): a global pattern searches from its cursor and leaves
\* the end of the match, or 0 after a failure
patternTest(pattern, s, lastIndex) ==
    LET hits == {i \in 1..Len(s) : i - 1 >= lastIndex /\ s[i] \in pattern}
    IN IF hits = {} THEN [found |-> FALSE, lastIndex |-> 0]
       ELSE [found |-> TRUE, lastIndex |-> CHOOSE i \in hits : \A j \in hits : i <= j]

\* str.replace(_combinedPattern, replaceWith): a global replace starts at 0
\* whatever the cursor is and leaves the cursor at 0
patternReplace(s, pattern, replaceWith, lastIndex) ==
    [result |-> replace(s, pattern, replaceWith), lastIndex |-> 0]

\* _combinedPattern.test(s) from wherever the cursor is
resetAndTest_noReset(pattern, s, st) ==
    LET r == patternTest(pattern, s, st.lastIndex)
    IN [found |-> r.found, st |-> [st EXCEPT !.lastIndex = r.lastIndex]]

\* _combinedPattern.lastIndex = 0; _combinedPattern.test(s)
resetAndTest(pattern, s, st) ==
    LET r == patternTest(pattern, s, [st EXCEPT !.lastIndex = 0].lastIndex)
    IN [found |-> r.found, st |-> [st EXCEPT !.lastIndex = r.lastIndex]]

fxSanitizeString(str, opts, isValue, st) ==
    IF ~isString(str) \/ isEmail(str) THEN [value |-> str, st |-> st]
    ELSE LET replaced == patternReplace(str.s, opts._combinedPattern, opts.replaceWith,
                                        [st EXCEPT !.lastIndex = 0].lastIndex)
             trimmed == IF opts.stringOptions.trim THEN trim(replaced.result)
                        ELSE replaced.result
             lowered == IF opts.stringOptions.lowercase THEN toLowerCase(trimmed) ELSE trimmed
             maxLength == opts.stringOptions.maxLength
             cut == IF maxLength # <<>> /\ maxLength[1] # 0 /\ isValue
                    THEN slice(lowered, 1, maxLength[1]) ELSE lowered
         IN [value |-> Str(cut), st |-> [st EXCEPT !.lastIndex = replaced.lastIndex]]

\* the loop of sanitizeArray from the i-th element on
fxSanitizeItems(items, i, opts, depth, st) ==
    IF i > Len(items) THEN [value |-> <<>>, st |-> st]
    ELSE With(IF ~opts.recursive /\ (isPlainObject(items[i]) \/ isArray(items[i]))
              THEN [value |-> items[i], st |-> st]
              ELSE fxSanitizeValue(items[i], opts, TRUE, depth, st),
              LAMBDA item :
                IF item.st.raised # <<>> THEN [value |-> <<>>, st |-> item.st]
                ELSE
                With(fxSanitizeItems(items, i + 1, opts, depth, item.st),
                     LAMBDA rest : [value |-> <<item.value>> \o rest.value, st |-> rest.st]))

fxSanitizeArray(arr, opts, depth, st) ==
    IF ~isArray(arr)
    THEN Thrown(Raise(st, NoSQLSanitizeError(<<"Input must be an array">>, "type_error")))
    ELSE
    With(fxSanitizeItems(arr.items, 1, opts, depth, st),
         LAMBDA result :
            IF result.st.raised # <<>> THEN Thrown(result.st)
            ELSE
            LET filtered == IF opts.arrayOptions.filterNull THEN filterBoolean(result.value)
                            ELSE result.value
                out == IF opts.arrayOptions.distinct THEN distinct(filtered) ELSE filtered
            IN [value |-> Arr(Fresh, out), st |-> result.st])

\* an event that reports the two values the other way round
SanitizeEvent_swapped(key, originalValue, sanitizedValue) ==
    [key |-> key, originalValue |-> sanitizedValue, sanitizedValue |-> originalValue,
     path |-> key]

SanitizeEvent(key, originalValue, sanitizedValue) ==
    [key |-> key, originalValue |-> originalValue, sanitizedValue |-> sanitizedValue,
     path |-> key]

\* onSanitize(event), for the hooks of the model: "hook" keeps what it is told;
\* "throws" throws; "reenters" calls sanitizeObject({ $a: 1 }, options) with the
\* options it runs under, which leaves the cursor behind the '$' when
\* removeMatches is set
ReentrantArgument == Obj(9, << <<<<"$", "a">>, Num(1)>> >>)
onSanitize(name, event, opts, st) ==
    LET told == [st EXCEPT !.events = Append(@, event)]
    IN CASE name = "throws" -> Raise(told, Error(<<"hook">>))
         [] name = "reenters" -> fxSanitizeValue(ReentrantArgument, opts, FALSE, 0, told).st
         [] OTHER -> told

\* one iteration of the loop of sanitizeObject: the accumulator and the state after
\* a loop body that tests the key before it sanitizes it, from the cursor as it is
fxSanitizePair_testsKeyFirst(acc, key, val, opts, depth, st) ==
    IF opts.deniedKeys # {} /\ key \in opts.deniedKeys
    THEN IF isEmail(val)
         THEN With(fxSanitizeString(Str(key), opts, FALSE, st),
                   LAMBDA k : [acc |-> Put(acc, k.value.s, val), st |-> k.st])
         ELSE [acc |-> acc, st |-> st]
    ELSE IF opts.allowedKeys # {} /\ key \notin opts.allowedKeys
    THEN [acc |-> acc, st |-> st]
    ELSE
    With(IF opts.removeMatches THEN resetAndTest_noReset(opts._combinedPattern, key, st)
         ELSE [found |-> FALSE, st |-> st], LAMBDA keyTest :
    IF keyTest.found THEN [acc |-> acc, st |-> keyTest.st]
    ELSE
    With(fxSanitizeString(Str(key), opts, FALSE, keyTest.st), LAMBDA k :
       IF opts.removeEmpty /\ k.value.s = <<>> THEN [acc |-> acc, st |-> k.st]
       ELSE
       With(IF opts.removeMatches /\ isString(val)
            THEN resetAndTest(opts._combinedPattern, val.s, k.st)
            ELSE [found |-> FALSE, st |-> k.st], LAMBDA valTest :
          IF valTest.found THEN [acc |-> acc, st |-> valTest.st]
          ELSE
          With(IF ~opts.recursive /\ (isPlainObject(val) \/ isArray(val))
               THEN [value |-> val, st |-> valTest.st]
               ELSE fxSanitizeValue(val, opts, TRUE, depth, valTest.st), LAMBDA v :
             IF v.st.raised # <<>> THEN [acc |-> acc, st |-> v.st]
             ELSE IF opts.removeEmpty /\ ~Truthy(v.value) THEN [acc |-> acc, st |-> v.st]
             ELSE [acc |-> Put(acc, k.value.s, v.value),
                   st |-> IF opts.onSanitize # <<>> /\ isString(val) /\ val # v.value
                          THEN onSanitize(opts.onSanitize[1],
                                          SanitizeEvent(key, val, v.value), opts, v.st)
                          ELSE v.st]))))

fxSanitizePair(acc, key, val, opts, depth, st) ==
    IF opts.deniedKeys # {} /\ key \in opts.deniedKeys
    THEN IF isEmail(val)
         THEN With(fxSanitizeString(Str(key), opts, FALSE, st),
                   LAMBDA k : [acc |-> Put(acc, k.value.s, val), st |-> k.st])
         ELSE [acc |-> acc, st |-> st]
    ELSE IF opts.allowedKeys # {} /\ key \notin opts.allowedKeys
    THEN [acc |-> acc, st |-> st]
    ELSE
    With(fxSanitizeString(Str(key), opts, FALSE, st), LAMBDA k :
    With(IF opts.removeMatches THEN resetAndTest(opts._combinedPattern, key, k.st)
         ELSE [found |-> FALSE, st |-> k.st], LAMBDA keyTest :
       IF keyTest.found THEN [acc |-> acc, st |-> keyTest.st]
       ELSE IF opts.removeEmpty /\ k.value.s = <<>> THEN [acc |-> acc, st |-> keyTest.st]
       ELSE
       With(IF opts.removeMatches /\ isString(val)
            THEN resetAndTest(opts._combinedPattern, val.s, keyTest.st)
            ELSE [found |-> FALSE, st |-> keyTest.st], LAMBDA valTest :
          IF valTest.found THEN [acc |-> acc, st |-> valTest.st]
          ELSE
          With(IF ~opts.recursive /\ (isPlainObject(val) \/ isArray(val))
               THEN [value |-> val, st |-> valTest.st]
               ELSE fxSanitizeValue(val, opts, TRUE, depth, valTest.st), LAMBDA v :
             IF v.st.raised # <<>> THEN [acc |-> acc, st |-> v.st]
             ELSE IF opts.removeEmpty /\ ~Truthy(v.value) THEN [acc |-> acc, st |-> v.st]
             ELSE [acc |-> Put(acc, k.value.s, v.value),
                   st |-> IF opts.onSanitize # <<>> /\ isString(val) /\ val # v.value
                          THEN onSanitize(opts.onSanitize[1],
                                          SanitizeEvent(key, val, v.value), opts, v.st)
                          ELSE v.st]))))

fxSanitizePairs(pairs, acc, opts, depth, st) ==
    IF pairs = <<>> THEN [value |-> acc, st |-> st]
    ELSE With(fxSanitizePair(acc, Head(pairs)[1], Head(pairs)[2], opts, depth, st),
              LAMBDA r : IF r.st.raised # <<>> THEN [value |-> r.acc, st |-> r.st]
                         ELSE fxSanitizePairs(Tail(pairs), r.acc, opts, depth, r.st))

fxSanitizeObject(obj, opts, depth, st) ==
    IF ~isPlainObject(obj)
    THEN Thrown(Raise(st, NoSQLSanitizeError(<<"Input must be an object">>, "type_error")))
    ELSE
    With(fxSanitizePairs(obj.pairs, <<>>, opts, depth, st),
         LAMBDA r : IF r.st.raised # <<>> THEN Thrown(r.st)
                    ELSE [value |-> Obj(Fresh, r.value), st |-> r.st])

fxSanitizeValue(value, opts, isValue, depth, st) ==
    IF value.kind \in {"null", "undef"} \/ isPrimitive(value) \/ isDate(value)
    THEN [value |-> value, st |-> st]
    ELSE IF isString(value) THEN fxSanitizeString(value, opts, isValue, st)
    ELSE IF opts.maxDepth # <<>> /\ depth >= opts.maxDepth[1] THEN [value |-> value, st |-> st]
    ELSE IF isArray(value) THEN fxSanitizeArray(value, opts, depth + 1, st)
    ELSE IF isPlainObject(value) THEN fxSanitizeObject(value, opts, depth + 1, st)
    ELSE [value |-> value, st |-> st]

(***************************************************************************)
(* The calls                                                               *)
(***************************************************************************)
NoValue == [kind |-> "none"]
NoRequest == [kind |-> "none"]

\* the state the calls share, as a call finds it and as it leaves it
shared == [lastIndex |-> options._lastIndex, events |-> events, raised |-> <<>>]
Leave(st) ==
    /\ options' = [options EXCEPT !._lastIndex = st.lastIndex]
    /\ events' = st.events

\* sanitizeValue(value, options) as handleRequest and the tests call it
CallSanitizeValue ==
    /\ pc = "start"
    /\ output' = sanitizeValue(input.value, options, input.isValue, input.depth)
    /\ Leave(fxSanitizeValue(input.value, options, input.isValue, input.depth, shared).st)
    /\ pc' = "done"
    /\ UNCHANGED <<input, again, request, calls>>

\* sanitizeValue(sanitizeValue(value, options), options)
CallSanitizeValueAgain ==
    /\ pc = "done"
    /\ again' = sanitizeValue(output, options, input.isValue, input.depth)
    /\ Leave(fxSanitizeValue(output, options, input.isValue, input.depth, shared).st)
    /\ pc' = "again"
    /\ UNCHANGED <<input, output, request, calls>>

(***************************************************************************)
(* Inputs: trees of bounded nesting.  A container holds one or two         *)
(* entries, at most one of them a container, and the container at nesting  *)
(* level l has identity l + 1.                                             *)
(***************************************************************************)
MaxNest == 3

LeafStrings ==
    {<<>>, <<"$", "$">>, <<"$", "a">>, <<"a", "\t">>,
     <<"a", "@", "b", ".", "a", "a">>, <<"$", "a", "@", "b", ".", "a", "a">>}
Leaves == {Null, Num(0)} \cup {Str(s) : s \in LeafStrings}
Siblings == {Str(<<"$", "b">>)}
Keys == {<<"$", "a">>, <<"a">>}

RECURSIVE Trees(_)
Trees(level) ==
    IF level >= MaxNest THEN Leaves
    ELSE LET sub == Trees(level + 1)
             ref == level + 1
         IN Leaves
            \cup {Arr(ref, <<x>>) : x \in sub}
            \cup {Arr(ref, <<s, x>>) : s \in Siblings, x \in sub}
            \cup {Obj(ref, << <<k, x>> >>) : k \in Keys, x \in sub}
            \cup {Obj(ref, << <<kk[1], s>>, <<kk[2], x>> >>) :
                    kk \in {q \in Keys \X Keys : q[1] # q[2]}, s \in Siblings, x \in sub}

ValueUserOptions == {[maxDepth |-> d] : d \in {<<>>} \cup {<<n>> : n \in 1..(MaxNest - 1)}}

InitValue ==
    /\ options \in {resolveOptions(u) : u \in ValueUserOptions}
    /\ input \in {[value |-> v, isValue |-> FALSE, depth |-> 0] : v \in Trees(0)}
    /\ output = NoValue
    /\ again = NoValue
    /\ events = <<>>
    /\ calls = 0
    /\ request = NoRequest
    /\ pc = "start"

NextValue == CallSanitizeValue \/ CallSanitizeValueAgain

SpecValue == InitValue /\ [][NextValue]_vars

(***************************************************************************)
(* Reading a result against the input, without the sanitizers: the nodes   *)
(* of the input and of the output that stand at the same place.  Array     *)
(* elements correspond by index (no array option set); the value of a key  *)
(* of a rebuilt mapping corresponds to the value of the last input key     *)
(* that is written to it; an object returned as it is corresponds to       *)
(* itself, entry by entry.                                                 *)
(***************************************************************************)
isContainer(v) == v.kind \in {"arr", "obj"}
Entries(v) == IF isArray(v) THEN v.items ELSE [i \in 1..Len(v.pairs) |-> v.pairs[i][2]]
Dangerous == {"$"} \cup ControlChars
strip(s) == SelectSeq(s, LAMBDA c : c \notin Dangerous)
lastWriter(pairs, key) ==
    CHOOSE i \in 1..Len(pairs) :
        strip(pairs[i][1]) = key /\ \A j \in (i + 1)..Len(pairs) : strip(pairs[j][1]) # key

RECURSIVE Corr(_, _, _)
Corr(in, out, level) ==
    {<<in, out, level>>} \cup
    IF ~isContainer(in) \/ in.kind # out.kind \/ Len(Entries(in)) < Len(Entries(out)) THEN {}
    ELSE IF isPlainObject(in) /\ out.ref = Fresh
    THEN UNION {Corr(in.pairs[lastWriter(in.pairs, out.pairs[j][1])][2], out.pairs[j][2], level + 1) :
                    j \in {i \in 1..Len(out.pairs) :
                              \E w \in 1..Len(in.pairs) : strip(in.pairs[w][1]) = out.pairs[i][1]}}
    ELSE UNION {Corr(Entries(in)[j], Entries(out)[j], level + 1) : j \in 1..Len(Entries(out))}

\* a mapping key or a string, at any depth, that holds '$' or a control character
RECURSIVE Clean(_)
Clean(v) ==
    CASE isString(v) -> \A i \in 1..Len(v.s) : v.s[i] \notin Dangerous
      [] isArray(v) -> \A i \in 1..Len(v.items) : Clean(v.items[i])
      [] isPlainObject(v) -> \A i \in 1..Len(v.pairs) :
                                /\ \A j \in 1..Len(v.pairs[i][1]) : v.pairs[i][1][j] \notin Dangerous
                                /\ Clean(v.pairs[i][2])
      [] OTHER -> TRUE

isDefault(opts) == opts = resolveOptions(<<>>)

\* C1: under the default configuration the result of sanitizeValue holds no mapping
\* key and no string, at any depth, that contains '$' or a control character.
C1_DefaultResultIsClean ==
    (pc = "done" /\ isDefault(options)) => Clean(output)

C1_Witness ==
    /\ pc = "done"
    /\ isDefault(options)
    /\ input.value = Obj(1, << <<<<"$", "a">>, Str(<<>>)>> >>)
    /\ output = Obj(Fresh, << <<<<"a">>, Str(<<>>)>> >>)

\* C4: with maxDepth = n, a container at nesting level >= n is returned as the
\* identical object, and a container at a level < n is rebuilt: arrays and mappings
\* alike count one level each.
C4_MaxDepthBoundary ==
    (pc = "done" /\ options.maxDepth # <<>>) =>
        \A c \in Corr(input.value, output, 0) :
            isContainer(c[1]) =>
                IF c[3] >= options.maxDepth[1]
                THEN c[2] = c[1]
                ELSE /\ c[2].kind = c[1].kind
                     /\ c[2].ref = Fresh
                     /\ isArray(c[1]) => Len(c[2].items) = Len(c[1].items)
                     /\ isPlainObject(c[1]) =>
                            {c[2].pairs[i][1] : i \in 1..Len(c[2].pairs)}
                                = {strip(c[1].pairs[i][1]) : i \in 1..Len(c[1].pairs)}

C4_Witness ==
    /\ pc = "done"
    /\ options.maxDepth = <<1>>
    /\ input.value = Obj(1, << <<<<"a">>, Obj(2, << <<<<"a">>, Obj(3, << <<<<"a">>, Str(<<"$", "a">>)>> >>)>> >>)>> >>)
    /\ output.ref = Fresh
    /\ output.pairs[1][2] = input.value.pairs[1][2]

\* C5 as stated: every non-email string anywhere in the input has its matches replaced
C5_EveryStringSubstituted ==
    pc = "done" =>
        \A c \in Corr(input.value, output, 0) :
            (isString(c[1]) /\ ~isEmail(c[1])) => c[2] = Str(strip(c[1].s))

\* C5, amended: a non-email string at nesting level <= maxDepth (any level when
\* maxDepth is null) has its matches replaced, also at level maxDepth where a
\* container is left alone; a string inside a container that maxDepth left alone
\* (level > maxDepth) is returned as it is.
C5_ReachedStringsSubstituted ==
    pc = "done" =>
        \A c \in Corr(input.value, output, 0) :
            isString(c[1]) =>
                IF options.maxDepth # <<>> /\ c[3] > options.maxDepth[1]
                THEN c[2] = c[1]
                ELSE c[2] = (IF isEmail(c[1]) THEN c[1] ELSE Str(strip(c[1].s)))

C5_Witness ==
    /\ pc = "done"
    /\ options.maxDepth = <<1>>
    /\ input.value = Arr(1, <<Str(<<"$", "b">>), Arr(2, <<Str(<<"$", "a">>)>>)>>)
    /\ output = Arr(Fresh, <<Str(<<"b">>), Arr(2, <<Str(<<"$", "a">>)>>)>>)

(***************************************************************************)
(* sanitizeString and sanitizeValue on strings, over the string options    *)
(***************************************************************************)
MaxStrLen == 2

StrChars == {"$", "\t", " ", "a", "A", "@", "."}
ShortStrings == UNION {[1..n -> StrChars] : n \in 0..MaxStrLen}
\* local part, "@", domain, ".", top-level domain: email-shaped or nearly so
EmailLike ==
    {l \o <<"@">> \o d \o <<".">> \o tld :
        l \in {<<>>, <<"a">>, <<"A">>, <<"$", "a">>, <<"a", " ">>},
        d \in {<<"b">>, <<"A">>, <<"b", "\t">>, <<"a", ".", "b">>},
        tld \in {<<"a">>, <<"a", "a">>, <<"A", "b">>, <<"a", "a", " ">>}}

ReplaceWiths == {<<>>, <<"_">>, <<"$">>}
PatternLists == {PATTERNS, <<{"@"}>>, <<{"a"}, {"."}>>}
MaxLengths == {<<>>, <<1>>, <<MaxStrLen>>}
StringUserOptions ==
    {[replaceWith |-> r, patterns |-> p,
      stringOptions |-> [trim |-> t, lowercase |-> l, maxLength |-> m]] :
        r \in ReplaceWiths, p \in PatternLists, t \in BOOLEAN, l \in BOOLEAN, m \in MaxLengths}

CallSanitizeString ==
    /\ pc = "start"
    /\ output' = sanitizeString(input.value, options, input.isValue)
    /\ Leave(fxSanitizeString(input.value, options, input.isValue, shared).st)
    /\ pc' = "done"
    /\ UNCHANGED <<input, again, request, calls>>

InitString ==
    /\ options \in {resolveOptions(u) : u \in StringUserOptions}
    /\ input \in {[value |-> Str(s), isValue |-> b, depth |-> 0] :
                    s \in ShortStrings \cup EmailLike, b \in BOOLEAN}
    /\ output = NoValue
    /\ again = NoValue
    /\ events = <<>>
    /\ calls = 0
    /\ request = NoRequest
    /\ pc = "start"

NextString == CallSanitizeString \/ CallSanitizeValue

SpecString == InitString /\ [][NextString]_vars

\* C2: sanitizeString and sanitizeValue return an email-shaped string unchanged,
\* whatever replaceWith, patterns, trim, lowercase and maxLength are.
C2_EmailUnchanged ==
    (pc = "done" /\ isEmail(input.value)) => output = input.value

C2_Witness ==
    /\ pc = "done"
    /\ input.value = Str(<<"A", "@", "a", ".", "b", ".", "A", "b">>)
    /\ input.isValue
    /\ options.stringOptions = [trim |-> TRUE, lowercase |-> TRUE, maxLength |-> <<1>>]
    /\ options._combinedPattern = {"a", "."}
    /\ output = input.value

(***************************************************************************)
(* sanitizeValue applied twice, over the options of every group            *)
(***************************************************************************)
IdemStrings ==
    {<<>>, <<"$">>, <<"$", "a">>, <<"a", " ", "b">>, <<"A">>, <<"a">>,
     <<"a", "@", "b", ".", "a", "a">>}
IdemLeaves == {Null, Num(0)} \cup {Str(s) : s \in IdemStrings}
IdemSeconds == {Null, Str(<<"$", "a">>), Str(<<"a">>)}
IdemKeys == {<<"$", "a">>, <<"a">>, <<"A">>, <<"$">>}
IdemKeyPairs ==
    {<<<<"$", "a">>, <<"a">>>>, <<<<"a">>, <<"$", "a">>>>, <<<<"A">>, <<"a">>>>,
     <<<<"a">>, <<"A">>>>, <<<<"$">>, <<"a">>>>}
IdemInner(ref) ==
    {Arr(ref, <<x, y>>) : x \in IdemLeaves, y \in IdemSeconds}
    \cup {Obj(ref, << <<k, x>> >>) : k \in IdemKeys, x \in IdemLeaves}
IdemValues ==
    IdemInner(1)
    \cup {Obj(1, << <<kk[1], x>>, <<kk[2], y>> >>) :
            kk \in IdemKeyPairs, x \in IdemLeaves, y \in IdemSeconds \ {Str(<<"a">>)}}
    \cup {Obj(1, << <<<<"a">>, c>> >>) : c \in IdemInner(2)}
    \cup {Arr(1, <<c>>) : c \in IdemInner(2)}

KeyUserOptions ==
    {[removeMatches |-> rm, removeEmpty |-> re, allowedKeys |-> ak, deniedKeys |-> dk,
      patterns |-> p, stringOptions |-> [lowercase |-> l]] :
        rm \in BOOLEAN, re \in BOOLEAN, l \in BOOLEAN, p \in {PATTERNS, <<{"@"}>>},
        ak \in {<<>>, << <<"a">> >>, << <<"$", "a">>, <<"A">> >>},
        dk \in {<<>>, << <<"a">> >>, << <<"$", "a">> >>}}
StructureUserOptions ==
    {[recursive |-> r, maxDepth |-> d, removeMatches |-> rm, removeEmpty |-> re,
      arrayOptions |-> [filterNull |-> f, distinct |-> di]] :
        r \in BOOLEAN, rm \in BOOLEAN, re \in BOOLEAN, f \in BOOLEAN, di \in BOOLEAN,
        d \in {<<>>, <<1>>}}

InitIdem ==
    /\ options \in {resolveOptions(u) :
                        u \in StringUserOptions \cup KeyUserOptions \cup StructureUserOptions}
    /\ input \in {[value |-> v, isValue |-> FALSE, depth |-> 0] : v \in IdemValues}
    /\ output = NoValue
    /\ again = NoValue
    /\ events = <<>>
    /\ calls = 0
    /\ request = NoRequest
    /\ pc = "start"

SpecIdem == InitIdem /\ [][NextValue]_vars

\* C3 as stated: for every configuration, sanitizing a sanitized value changes nothing
C3_Idempotent ==
    pc = "again" => again = output

\* the configurations of the amended C3
NoKeyFilter(opts) == opts.allowedKeys = {} /\ opts.deniedKeys = {}
CleanReplacement(opts) ==
    \A i \in 1..Len(opts.replaceWith) : opts.replaceWith[i] \notin opts._combinedPattern
NoTrimThenCut(opts) ==
    ~(opts.stringOptions.trim /\ opts.stringOptions.maxLength # <<>>)

LowercaseStable(opts) ==
    \/ ~opts.stringOptions.lowercase
    \/ \A c \in StrChars \cup Letters :
            toLowerChar(c) \in opts._combinedPattern => c \in opts._combinedPattern
StableOptions(opts) ==
    NoKeyFilter(opts) /\ CleanReplacement(opts) /\ NoTrimThenCut(opts) /\ LowercaseStable(opts)

\* C3, amended: sanitizing a sanitized value changes nothing when no key filter is
\* set (allowedKeys and deniedKeys empty), replaceWith holds no character the
\* combined pattern matches, trim and maxLength are not both set, and lowercase is
\* off or turns no unmatched character into a matched one.
C3_IdempotentWhenStable ==
    (pc = "again" /\ StableOptions(options)) => again = output

C3_Witness ==
    /\ pc = "again"
    /\ StableOptions(options)
    /\ options.removeMatches /\ options.arrayOptions.distinct
    /\ input.value = Arr(1, <<Obj(2, << <<<<"a">>, Str(<<"$", "a">>)>> >>)>>)
    /\ output # input.value
    /\ again = output

(***************************************************************************)
(* sanitizeObject on mappings of one to three pairs, over the key options  *)
(***************************************************************************)
Email == Str(<<"a", "@", "b", ".", "a", "a">>)
ObjectValues ==
    {Null, Num(0), Str(<<>>), Str(<<"a">>), Str(<<"$", "a">>), Str(<<"A", "\t">>), Email,
     Obj(2, << <<<<"$", "a">>, Str(<<"$", "a">>)>> >>), Arr(2, <<Str(<<"$", "a">>)>>)}
ObjectKeys == {<<"$", "a">>, <<"a">>, <<"A">>, <<"b">>, <<"$">>}
ObjectKeyPairs ==
    {<<<<"$", "a">>, <<"a">>>>, <<<<"a">>, <<"$", "a">>>>, <<<<"A">>, <<"a">>>>,
     <<<<"a">>, <<"b">>>>, <<<<"$">>, <<"a">>>>, <<<<"$", "a">>, <<"b">>>>}
Objects ==
    {Obj(1, << <<k, x>> >>) : k \in ObjectKeys, x \in ObjectValues}
    \cup {Obj(1, << <<kk[1], x>>, <<kk[2], y>> >>) :
            kk \in ObjectKeyPairs, x \in ObjectValues, y \in {Str(<<"$", "a">>), Email, Num(1)}}
    \cup {Obj(1, << <<<<"$", "a">>, x>>, <<<<"a">>, Str(<<"$", "a">>)>>, <<<<"b">>, y>> >>) :
            x \in {Str(<<"a">>), Email}, y \in {Email, Str(<<"b">>)}}

CallSanitizeObject ==
    /\ pc = "start"
    /\ output' = sanitizeObject(input.value, options, input.depth)
    /\ Leave(fxSanitizeObject(input.value, options, input.depth, shared).st)
    /\ pc' = "done"
    /\ UNCHANGED <<input, again, request, calls>>

InitObject ==
    /\ options \in {resolveOptions(u) : u \in KeyUserOptions}
    /\ input \in {[value |-> v, isValue |-> FALSE, depth |-> 1] : v \in Objects}
    /\ output = NoValue
    /\ again = NoValue
    /\ events = <<>>
    /\ calls = 0
    /\ request = NoRequest
    /\ pc = "start"

NextObject == CallSanitizeObject

SpecObject == InitObject /\ [][NextObject]_vars

\* what the pairs write, one after the other, into an empty mapping:
\* writes[i] is <<>> (nothing) or <<key, value>>
RECURSIVE Written(_, _)
Written(writes, acc) ==
    IF writes = <<>> THEN acc
    ELSE Written(Tail(writes),
                 IF Head(writes) = <<>> THEN acc ELSE Put(acc, Head(writes)[1], Head(writes)[2]))

\* what a pair that no key filter stops writes: removeMatches looks at the original
\* key and value, removeEmpty at the sanitized ones
remaining(key, val, opts, depth) ==
    LET sanitizedKey == sanitizeString(Str(key), opts, FALSE).s
        sanitizedValue == sanitizeValue(val, opts, TRUE, depth)
    IN IF opts.removeMatches
            /\ (test(opts._combinedPattern, key)
                    \/ (isString(val) /\ test(opts._combinedPattern, val.s)))
       THEN <<>>
       ELSE IF opts.removeEmpty /\ (sanitizedKey = <<>> \/ ~Truthy(sanitizedValue)) THEN <<>>
       ELSE <<sanitizedKey, sanitizedValue>>
sanitizedKeyOf(key, opts) == sanitizeString(Str(key), opts, FALSE).s

\* C6 as stated: a denied key keeps its pair, key and value as they are, exactly when
\* the value is email-shaped; a key that is not denied and not in a non-empty
\* allowedKeys is dropped; only the remaining keys are pattern-sanitized.
C6_KeyPrecedence ==
    pc = "done" =>
        output.pairs = Written(
            [i \in 1..Len(input.value.pairs) |->
                LET key == input.value.pairs[i][1]
                    val == input.value.pairs[i][2]
                IN IF key \in options.deniedKeys
                   THEN IF isEmail(val) THEN <<key, val>> ELSE <<>>
                   ELSE IF options.allowedKeys # {} /\ key \notin options.allowedKeys THEN <<>>
                   ELSE remaining(key, val, options, input.depth)], <<>>)

\* C6, amended: a denied key is written exactly when its value is email-shaped, with
\* the value as it is and the key pattern-sanitized like every written key, whether
\* or not the key is allowed; a key that is not denied and not in a non-empty
\* allowedKeys is dropped; the remaining keys go through removeMatches, removeEmpty and
\* pattern substitution.  A later key with the same sanitized key overwrites the value.
C6_KeyPrecedenceSanitizedKey ==
    pc = "done" =>
        output.pairs = Written(
            [i \in 1..Len(input.value.pairs) |->
                LET key == input.value.pairs[i][1]
                    val == input.value.pairs[i][2]
                IN IF key \in options.deniedKeys
                   THEN IF isEmail(val) THEN <<sanitizedKeyOf(key, options), val>> ELSE <<>>
                   ELSE IF options.allowedKeys # {} /\ key \notin options.allowedKeys THEN <<>>
                   ELSE remaining(key, val, options, input.depth)], <<>>)

C6_Witness ==
    /\ pc = "done"
    /\ options.deniedKeys = {<<"a">>}
    /\ options.allowedKeys = {<<"a">>}
    /\ input.value = Obj(1, << <<<<"a">>, Email>>, <<<<"b">>, Email>> >>)
    /\ output = Obj(Fresh, << <<<<"a">>, Email>> >>)

\* C7: with removeMatches set (no key filter, removeEmpty off, default string
\* options) the Object Sanitizer drops every pair whose original key matches the
\* combined pattern and every pair whose original string value matches it, and keeps
\* every other pair, in order, under its key.
matchesPattern(pair, opts) ==
    \/ test(opts._combinedPattern, pair[1])
    \/ isString(pair[2]) /\ test(opts._combinedPattern, pair[2].s)
MaxArrayLen == 3

ArrayItems ==
    {Null, Num(0), Str(<<>>), Str(<<"$">>), Str(<<"a">>), Str(<<"$", "a">>), Str(<<"$", "b">>),
     Obj(2, << <<<<"a">>, Str(<<"a">>)>> >>), Obj(3, << <<<<"a">>, Str(<<"a">>)>> >>)}

ScenarioC == <<Str(<<"$", "a">>), Str(<<"$", "a">>), Null, Str(<<"$", "b">>), Null>>

Arrays ==
    {Arr(1, ScenarioC)} \cup
    UNION {{Arr(1, items) : items \in [1..n -> ArrayItems]} : n \in 0..MaxArrayLen}

ArrayUserOptions ==
    {[recursive |-> r, maxDepth |-> d, arrayOptions |-> [filterNull |-> f, distinct |-> di]] :
        r \in BOOLEAN, f \in BOOLEAN, di \in BOOLEAN, d \in {<<>>, <<1>>}}

CallSanitizeArray ==
    /\ pc = "start"
    /\ output' = sanitizeArray(input.value, options, input.depth)
    /\ Leave(fxSanitizeArray(input.value, options, input.depth, shared).st)
    /\ pc' = "done"
    /\ UNCHANGED <<input, again, request, calls>>

InitArray ==
    /\ options \in {resolveOptions(u) : u \in ArrayUserOptions}
    /\ input \in {[value |-> v, isValue |-> TRUE, depth |-> 1] : v \in Arrays}
    /\ output = NoValue
    /\ again = NoValue
    /\ events = <<>>
    /\ calls = 0
    /\ request = NoRequest
    /\ pc = "start"

NextArray == CallSanitizeArray

SpecArray == InitArray /\ [][NextArray]_vars

\* the value without the identities of its containers
RECURSIVE unref(_)
unref(v) ==
    CASE isArray(v) -> Arr(Fresh, [i \in 1..Len(v.items) |-> unref(v.items[i])])
      [] isPlainObject(v) ->
            Obj(Fresh, [i \in 1..Len(v.pairs) |-> <<v.pairs[i][1], unref(v.pairs[i][2])>>])
      [] OTHER -> v

\* the elements of items at the indexes in idx, in order
pick(items, idx) ==
    LET f[i \in 0..Len(items)] ==
            IF i = 0 THEN <<>> ELSE IF i \in idx THEN Append(f[i - 1], items[i]) ELSE f[i - 1]
    IN f[Len(items)]

\* each element sanitized in order, then the falsy ones dropped under filterNull
sanitizedThenFiltered ==
    LET each == [i \in 1..Len(input.value.items) |->
                    IF ~options.recursive /\ isContainer(input.value.items[i])
                    THEN input.value.items[i]
                    ELSE sanitizeValue(input.value.items[i], options, TRUE, input.depth)]
    IN IF options.arrayOptions.filterNull THEN pick(each, {i \in 1..Len(each) : Truthy(each[i])})
       ELSE each

\* C8 as stated: under distinct the result is the first occurrence of every value of
\* the sanitized and filtered elements, two elements being the same when they are
\* equal by value; with neither option the result is the sanitized elements.
C8_DistinctByValue ==
    pc = "done" =>
        LET f == sanitizedThenFiltered
        IN output.items =
            IF options.arrayOptions.distinct
            THEN pick(f, {i \in 1..Len(f) : \A j \in 1..(i - 1) : unref(f[j]) # unref(f[i])})
            ELSE f

\* C8: the elements are sanitized in order, falsy ones are dropped under filterNull,
\* and under distinct the first occurrence of every element is kept, strings and
\* primitives being the same when equal by value and arrays and mappings only when
\* they are one object; with neither option length and order are the input's.
C8_DistinctBySameValueZero ==
    pc = "done" =>
        LET f == sanitizedThenFiltered
        IN /\ output.items =
                IF options.arrayOptions.distinct
                THEN pick(f, {i \in 1..Len(f) : \A j \in 1..(i - 1) : ~SameValueZero(f[j], f[i])})
                ELSE f
           /\ (~options.arrayOptions.filterNull /\ ~options.arrayOptions.distinct) =>
                Len(output.items) = Len(input.value.items)

C8_Witness ==
    /\ pc = "done"
    /\ options.arrayOptions.filterNull /\ options.arrayOptions.distinct
    /\ input.value.items = ScenarioC
    /\ output.items = <<Str(<<"a">>), Str(<<"b">>)>>

(***************************************************************************)
(* helpers.js, index.js: the content-type gate and handleRequest           *)
(***************************************************************************)
\* <<>> is null, <<mime>> a MIME type
extractMimeType(contentType) ==
    IF ~isString(contentType) THEN <<>>
    ELSE LET idx == indexOf(contentType.s, ";")
             mime == toLowerCase(trim(IF idx = 0 THEN contentType.s
                                      ELSE slice(contentType.s, 1, idx - 1)))
         IN IF mime = <<>> THEN <<>> ELSE <<mime>>

\* request.headers is <<>> when the request has no header map and <<v>> when
\* headers['content-type'] is v; request.get is <<>> when it is not a function and
\* <<v>> when get('content-type') returns v.
headerOf(req) ==
    LET direct == IF req.headers # <<>> THEN req.headers[1] ELSE Undefined
        viaGet == IF req.get # <<>> THEN req.get[1] ELSE Bool(FALSE)
    IN IF Truthy(direct) THEN direct ELSE IF Truthy(viaGet) THEN viaGet ELSE Null

\* a gate that skips the body of a request without a content-type header
shouldSanitizeContentType_absentSkips(req, contentTypes) ==
    IF contentTypes = <<>> THEN TRUE
    ELSE LET header == headerOf(req)
         IN IF ~Truthy(header) THEN FALSE
            ELSE LET mime == extractMimeType(header)
                 IN IF mime # <<>> THEN mime[1] \in contentTypes[1] ELSE TRUE

shouldSanitizeContentType(req, contentTypes) ==
    IF contentTypes = <<>> THEN TRUE
    ELSE LET header == headerOf(req)
         IN IF ~Truthy(header) THEN TRUE
            ELSE LET mime == extractMimeType(header)
                 IN IF mime # <<>> THEN mime[1] \in contentTypes[1] ELSE TRUE

\* request.chain is the request followed by its prototypes; each holds, per
\* property, <<>> or <<descriptor>>.  A descriptor has the attributes writable,
\* enumerable and configurable, and set: "none" for a data property or an
\* accessor without setter, "stores" for a setter whose value the getter then
\* returns, "ignores" for a setter that keeps the old value.  request.fields[p]
\* is what request[p] reads.
DataDescriptor == [writable |-> TRUE, set |-> "none", enumerable |-> TRUE, configurable |-> TRUE]

RECURSIVE nearestDescriptor(_, _, _)
nearestDescriptor(chain, prop, cur) ==
    IF cur > Len(chain) THEN <<>>
    ELSE IF chain[cur][prop] # <<>> THEN chain[cur][prop]
    ELSE nearestDescriptor(chain, prop, cur + 1)

\* a test that looks at the request's own descriptor only
isWritable_ownOnly(req, prop) ==
    LET desc == req.chain[1][prop]
    IN IF desc # <<>> THEN desc[1].writable \/ desc[1].set # "none" ELSE TRUE

isWritable(req, prop) ==
    LET desc == nearestDescriptor(req.chain, prop, 1)
    IN IF desc # <<>> THEN desc[1].writable \/ desc[1].set # "none" ELSE TRUE

\* request[field] = value: a setter is called, a writable or missing property is
\* written on the request itself; anything else is refused
assign(req, field, value) ==
    LET desc == nearestDescriptor(req.chain, field, 1)
    IN IF desc # <<>> /\ desc[1].set = "stores" THEN [req EXCEPT !.fields[field] = value]
       ELSE IF desc # <<>> /\ desc[1].set = "ignores" THEN req
       ELSE IF desc = <<>> \/ desc[1].writable
       THEN [req EXCEPT !.fields[field] = value,
                        !.chain[1][field] = IF @ = <<>> THEN <<DataDescriptor>> ELSE @]
       ELSE [req EXCEPT !.raised = TRUE]

\* Object.defineProperty(request, field, { value, writable: true, enumerable:
\* true, configurable: true }): a TypeError on an own property that is not
\* configurable
defineProperty(req, field, value) ==
    IF req.chain[1][field] # <<>> /\ ~req.chain[1][field][1].configurable
    THEN [req EXCEPT !.raised = TRUE]
    ELSE [req EXCEPT !.fields[field] = value, !.chain[1][field] = <<DataDescriptor>>]

\* the write-back of handleRequest
writeBack(req, field, sanitized) ==
    IF isWritable(req, field) THEN assign(req, field, sanitized)
    ELSE defineProperty(req, field, sanitized)

\* customSanitizer(original, options), for the custom sanitizers of the model:
\* "identity" hands back what it is given; "tags" returns a mapping holding its
\* two arguments; "strict" throws on a string and hands back anything else;
\* "arrays" returns sanitizeArray(original, options, 0)
customSanitizer(name, original, opts) ==
    CASE name = "tags" ->
            Obj(Fresh, << <<<<"d">>, original>>, <<<<"o">>, [kind |-> "options", is |-> opts]>> >>)
      [] name = "strict" -> IF isString(original) THEN Error(<<"custom">>) ELSE original
      [] name = "arrays" -> sanitizeArray(original, opts, 0)
      [] OTHER -> original

\* the same with the state the calls share
fxCustomSanitizer(name, original, opts, st) ==
    IF name = "arrays" THEN fxSanitizeArray(original, opts, 0, st)
    ELSE IF name = "reenters"
    THEN [value |-> original, st |-> fxSanitizeValue(ReentrantArgument, opts, FALSE, 0, st).st]
    ELSE With(customSanitizer(name, original, opts),
              LAMBDA returned : IF returned.kind = "error" THEN Thrown(Raise(st, returned))
                                ELSE [value |-> returned, st |-> st])

\* one turn of the loop of handleRequest
\* a loop body that hands the custom sanitizer's result to sanitizeValue
handleField_sanitizesCustomResult(req, field, opts, shouldSanitizeBody) ==
    IF field = "body" /\ ~shouldSanitizeBody THEN req
    ELSE LET data == req.fields[field]
         IN IF data.kind \in {"null", "undef"} THEN req
            ELSE IF isPlainObject(data) /\ isObjectEmpty(data) THEN req
            ELSE LET original == IF isArray(data) THEN Arr(Fresh, data.items)
                                 ELSE IF isPlainObject(data) THEN Obj(Fresh, data.pairs)
                                 ELSE data
                     sanitized == IF opts.customSanitizer # <<>>
                                  THEN sanitizeValue(customSanitizer(opts.customSanitizer[1],
                                                                     original, opts),
                                                     opts, FALSE, 0)
                                  ELSE sanitizeValue(original, opts, FALSE, 0)
                 IN IF sanitized.kind = "error" THEN [req EXCEPT !.raised = TRUE]
                    ELSE writeBack(req, field, sanitized)

handleField(req, field, opts, shouldSanitizeBody) ==
    IF field = "body" /\ ~shouldSanitizeBody THEN req
    ELSE LET data == req.fields[field]
         IN IF data.kind \in {"null", "undef"} THEN req
            ELSE IF isPlainObject(data) /\ isObjectEmpty(data) THEN req
            ELSE LET original == IF isArray(data) THEN Arr(Fresh, data.items)
                                 ELSE IF isPlainObject(data) THEN Obj(Fresh, data.pairs)
                                 ELSE data
                     sanitized == IF opts.customSanitizer # <<>>
                                  THEN customSanitizer(opts.customSanitizer[1], original, opts)
                                  ELSE sanitizeValue(original, opts, FALSE, 0)
                 IN IF sanitized.kind = "error" THEN [req EXCEPT !.raised = TRUE]
                    ELSE writeBack(req, field, sanitized)

RECURSIVE handleFields(_, _, _, _)
handleFields(req, fields, opts, shouldSanitizeBody) ==
    IF fields = <<>> \/ req.raised THEN req
    ELSE With(handleField(req, Head(fields), opts, shouldSanitizeBody),
              LAMBDA next : handleFields(next, Tail(fields), opts, shouldSanitizeBody))

\* a loop that ends at the body field when the gate is false
handleRequest_stopAtBody(req, opts) ==
    LET shouldSanitizeBody == shouldSanitizeContentType(req, opts.contentTypes)
        at == indexOf(opts.sanitizeObjects, "body")
    IN handleFields(req,
                    IF ~shouldSanitizeBody /\ at # 0 THEN SubSeq(opts.sanitizeObjects, 1, at - 1)
                    ELSE opts.sanitizeObjects,
                    opts, shouldSanitizeBody)

handleRequest(req, opts) ==
    With(shouldSanitizeContentType(req, opts.contentTypes),
         LAMBDA shouldSanitizeBody : handleFields(req, opts.sanitizeObjects, opts,
                                                  shouldSanitizeBody))

\* a loop that goes on with the next field after a throw
RECURSIVE fxHandleFields_goesOn(_, _, _, _, _)
fxHandleFields_goesOn(req, fields, opts, shouldSanitizeBody, st) ==
    IF fields = <<>> THEN [request |-> req, st |-> st]
    ELSE LET field == Head(fields)
             data == req.fields[field]
             original == IF isArray(data) THEN Arr(Fresh, data.items)
                         ELSE IF isPlainObject(data) THEN Obj(Fresh, data.pairs)
                         ELSE data
         IN IF \/ field = "body" /\ ~shouldSanitizeBody
               \/ data.kind \in {"null", "undef"}
               \/ isPlainObject(data) /\ isObjectEmpty(data)
            THEN fxHandleFields_goesOn(req, Tail(fields), opts, shouldSanitizeBody, st)
            ELSE With(IF opts.customSanitizer # <<>>
                      THEN fxCustomSanitizer(opts.customSanitizer[1], original, opts,
                                             [st EXCEPT !.raised = <<>>])
                      ELSE fxSanitizeValue(original, opts, FALSE, 0, [st EXCEPT !.raised = <<>>]),
                      LAMBDA sanitized :
                        With(IF sanitized.st.raised # <<>> THEN req
                             ELSE writeBack(req, field, sanitized.value),
                             LAMBDA next :
                                fxHandleFields_goesOn(
                                    [next EXCEPT !.raised = FALSE], Tail(fields), opts,
                                    shouldSanitizeBody,
                                    IF sanitized.st.raised # <<>> THEN sanitized.st
                                    ELSE IF st.raised # <<>>
                                    THEN [sanitized.st EXCEPT !.raised = st.raised]
                                    ELSE sanitized.st)))

\* handleRequest with the state the calls share: the request and the state it
\* leaves.  Nothing in handleRequest catches: a throw of the custom sanitizer, of
\* the hook or of Object.defineProperty ends the loop.
RECURSIVE fxHandleFields(_, _, _, _, _)
fxHandleFields(req, fields, opts, shouldSanitizeBody, st) ==
    IF fields = <<>> \/ req.raised THEN [request |-> req, st |-> st]
    ELSE LET field == Head(fields)
             data == req.fields[field]
             original == IF isArray(data) THEN Arr(Fresh, data.items)
                         ELSE IF isPlainObject(data) THEN Obj(Fresh, data.pairs)
                         ELSE data
         IN IF \/ field = "body" /\ ~shouldSanitizeBody
               \/ data.kind \in {"null", "undef"}
               \/ isPlainObject(data) /\ isObjectEmpty(data)
            THEN fxHandleFields(req, Tail(fields), opts, shouldSanitizeBody, st)
            ELSE With(IF opts.customSanitizer # <<>>
                      THEN fxCustomSanitizer(opts.customSanitizer[1], original, opts, st)
                      ELSE fxSanitizeValue(original, opts, FALSE, 0, st),
                      LAMBDA sanitized :
                        IF sanitized.st.raised # <<>>
                        THEN [request |-> [req EXCEPT !.raised = TRUE], st |-> sanitized.st]
                        ELSE
                        With(writeBack(req, field, sanitized.value),
                             LAMBDA next :
                                fxHandleFields(next, Tail(fields), opts, shouldSanitizeBody,
                                               IF next.raised THEN Raise(sanitized.st, TypeError)
                                               ELSE sanitized.st)))

fxHandleRequest(req, opts, st) ==
    With(shouldSanitizeContentType(req, opts.contentTypes),
         LAMBDA shouldSanitizeBody : fxHandleFields(req, opts.sanitizeObjects, opts,
                                                    shouldSanitizeBody, st))

(***************************************************************************)
(* requests: header values over a small alphabet, three fields             *)
(***************************************************************************)
MaxHeaderLen == 2

HeaderChars == {"j", "J", "x", ";", " "}
HeaderStrings == UNION {[1..n -> HeaderChars] : n \in 0..MaxHeaderLen}
HeaderValues == {Undefined, Num(1)} \cup {Str(s) : s \in HeaderStrings}

\* a request with its fields as own writable data properties, and one whose
\* query is a getter without setter on the prototype
OwnData == [body |-> <<DataDescriptor>>, query |-> <<DataDescriptor>>,
            params |-> <<DataDescriptor>>]
NoProperties == [body |-> <<>>, query |-> <<>>, params |-> <<>>]
PlainChain == <<OwnData, NoProperties>>
QueryGetterChain ==
    <<[OwnData EXCEPT !.query = <<>>],
      [NoProperties EXCEPT !.query = <<[writable |-> FALSE, set |-> "none",
                                        enumerable |-> TRUE, configurable |-> TRUE]>>]>>

Bodies ==
    {Undefined, Str(<<"$", "a">>), Obj(1, << <<<<"$", "a">>, Str(<<"$", "b">>)>> >>),
     Arr(1, <<Str(<<"$", "a">>)>>)}
Queries == {Null, Obj(2, <<>>), Obj(2, << <<<<"$", "a">>, Str(<<"a">>)>> >>)}
Params == {Undefined, Obj(3, << <<<<"a">>, Str(<<"$", "a">>)>> >>)}

Requests ==
    {[kind |-> "req", headers |-> h, get |-> g, chain |-> ch, raised |-> FALSE,
      fields |-> [body |-> b, query |-> q, params |-> pa]] :
        h \in {<<>>} \cup {<<v>> : v \in HeaderValues},
        g \in {<<>>, <<Undefined>>, <<Str(<<"j">>)>>},
        ch \in {PlainChain, QueryGetterChain},
        b \in Bodies, q \in Queries, pa \in Params}

RequestUserOptions ==
    {[sanitizeObjects |-> so, customSanitizer |-> cs] :
        so \in {<<"body", "query">>, <<"query", "body", "params">>, <<"params", "body">>},
        cs \in {<<>>, <<"identity">>}}
    \cup
    {[sanitizeObjects |-> so, customSanitizer |-> cs, contentTypes |-> ct] :
        so \in {<<"body", "query">>, <<"query", "body", "params">>, <<"params", "body">>},
        cs \in {<<>>, <<"identity">>},
        ct \in {<<>>, << << <<"J">> >> >>}}

CallShouldSanitizeContentType ==
    /\ pc = "start"
    /\ output' = Bool(shouldSanitizeContentType(request, options.contentTypes))
    /\ pc' = "gate"
    /\ UNCHANGED <<options, input, again, request, events, calls>>

CallHandleRequest ==
    /\ pc = "start"
    /\ request' = handleRequest(request, options)
    /\ Leave(fxHandleRequest(request, options, shared).st)
    /\ pc' = "done"
    /\ UNCHANGED <<input, output, again, calls>>

InitRequest ==
    /\ options \in {resolveOptions(u) : u \in RequestUserOptions}
    /\ request \in Requests
    /\ input = request
    /\ output = NoValue
    /\ again = NoValue
    /\ events = <<>>
    /\ calls = 0
    /\ pc = "start"

NextRequest == CallShouldSanitizeContentType \/ CallHandleRequest

SpecRequest == InitRequest /\ [][NextRequest]_vars

\* the content-type values the request declares: a non-empty string in the header
\* map or returned by the header accessor
declared(req) ==
    {v \in (IF req.headers # <<>> THEN {req.headers[1]} ELSE {}) \cup
           (IF req.get # <<>> THEN {req.get[1]} ELSE {}) : isString(v) /\ v.s # <<>>}

\* the text before the first ';', trimmed and lower-cased
mimeText(s) ==
    LET cut == IF \E i \in 1..Len(s) : s[i] = ";"
               THEN SubSeq(s, 1, (CHOOSE i \in 1..Len(s) :
                                    s[i] = ";" /\ \A j \in 1..(i - 1) : s[j] # ";") - 1)
               ELSE s
    IN toLowerCase(trim(cut))

\* C9 as stated: the gate is true under the null allow-set, true without a
\* content-type header, and with a header true only if the extracted MIME type is a
\* member of the allow-set.
C9_GateOnlyIfMember ==
    pc = "gate" =>
        /\ options.contentTypes = <<>> => output.b
        /\ (declared(request) = {} /\ Truthy(headerOf(request)) = FALSE) => output.b
        /\ (options.contentTypes # <<>> /\ declared(request) # {} /\ output.b) =>
                \E v \in declared(request) : mimeText(v.s) \in options.contentTypes[1]

\* C9: the gate is true under the null allow-set and true without a content-type
\* header; with a header that is a string holding text before its first ';' it is
\* true exactly when that text, trimmed and lower-cased, is a member of the
\* allow-set; with a header that is no string or holds no such text it is true.
C9_GateMemberOrNoMime ==
    pc = "gate" =>
        LET header == headerOf(request)
        IN output.b =
            \/ options.contentTypes = <<>>
            \/ ~Truthy(header)
            \/ ~isString(header)
            \/ mimeText(header.s) = <<>>
            \/ mimeText(header.s) \in options.contentTypes[1]

C9_Witness ==
    /\ pc = "gate"
    /\ options.contentTypes = <<{<<"j">>}>>
    /\ request.headers = <<Str(<<"J", ";">>)>>
    /\ output = Bool(TRUE)

\* C10: when the gate is false handleRequest leaves body as it is and gives every
\* other configured field the value it gets when the gate is true.
C10_GateAffectsOnlyBody ==
    (pc = "done" /\ ~shouldSanitizeContentType(input, options.contentTypes)) =>
        /\ request.fields.body = input.fields.body
        /\ \A f \in Range(options.sanitizeObjects) \ {"body"} :
            LET data == input.fields[f]
            IN /\ request.fields[f] =
                    handleRequest(input, [options EXCEPT !.contentTypes = <<>>]).fields[f]
               /\ request.fields[f] =
                    IF data.kind \in {"null", "undef"} \/ data = Obj(data.ref, <<>>) THEN data
                    ELSE IF options.customSanitizer = <<>>
                    THEN sanitizeValue(data, options, FALSE, 0)
                    ELSE IF isArray(data) THEN Arr(Fresh, data.items)
                    ELSE IF isPlainObject(data) THEN Obj(Fresh, data.pairs)
                    ELSE data

C10_Witness ==
    /\ pc = "done"
    /\ ~shouldSanitizeContentType(input, options.contentTypes)
    /\ options.sanitizeObjects = <<"body", "query">>
    /\ options.customSanitizer = <<>>
    /\ input.fields.body = Obj(1, << <<<<"$", "a">>, Str(<<"$", "b">>)>> >>)
    /\ request.fields.body = input.fields.body
    /\ input.fields.query = Obj(2, << <<<<"$", "a">>, Str(<<"a">>)>> >>)
    /\ request.fields.query = Obj(Fresh, << <<<<"a">>, Str(<<"a">>)>> >>)

(***************************************************************************)
(* index.js: shouldSkipRoute, called again and again on one skip set       *)
(***************************************************************************)
\* the loop over the regex list without pattern.lastIndex = 0
RECURSIVE testRoutes_noReset(_, _, _)
testRoutes_noReset(regex, cleaned, i) ==
    IF i > Len(regex) THEN [skip |-> FALSE, regex |-> regex]
    ELSE LET r == regexTest(regex[i], cleaned)
             after == [regex EXCEPT ![i].lastIndex = r.lastIndex]
         IN IF r.found THEN [skip |-> TRUE, regex |-> after]
            ELSE testRoutes_noReset(after, cleaned, i + 1)

\* the loop over the regex list, from the i-th pattern on
RECURSIVE testRoutes(_, _, _)
testRoutes(regex, cleaned, i) ==
    IF i > Len(regex) THEN [skip |-> FALSE, regex |-> regex]
    ELSE LET r == regexTest([regex[i] EXCEPT !.lastIndex = 0], cleaned)
             after == [regex EXCEPT ![i].lastIndex = r.lastIndex]
         IN IF r.found THEN [skip |-> TRUE, regex |-> after]
            ELSE testRoutes(after, cleaned, i + 1)

\* the result and the regex list with the cursors the call leaves
shouldSkipRoute(requestPath, skipRoutes) ==
    IF skipRoutes.exact = {} /\ Len(skipRoutes.regex) = 0
    THEN [skip |-> FALSE, regex |-> skipRoutes.regex]
    ELSE LET cleaned == cleanUrl(requestPath)
         IN IF cleaned # <<>> /\ cleaned[1] \in skipRoutes.exact
            THEN [skip |-> TRUE, regex |-> skipRoutes.regex]
            ELSE IF Len(skipRoutes.regex) # 0 /\ cleaned # <<>>
            THEN testRoutes(skipRoutes.regex, cleaned[1], 1)
            ELSE [skip |-> FALSE, regex |-> skipRoutes.regex]

MaxPathLen == 3
MaxCalls == 3

PathChars == {"/", "a", "?"}
Paths ==
    {Undefined, Str(<<"#">>), Str(<<"/", "a", "#">>), Str(<<"a", "#", "?">>), Str(<<"b">>),
     Str(<<"/", "b", "/">>), Str(<<"a", "/", "b">>), Str(<<"/", "a", "/", "b", "?">>)}
    \cup {Str(s) : s \in UNION {[1..n -> PathChars] : n \in 0..MaxPathLen}}

\* skipRoutes lists: strings (one of them dropped by the resolver), a value that is
\* neither a string nor a RegExp, patterns with and without the global flag, one
\* of them used before
SkipRouteLists ==
    {<<>>,
     <<Str(<<"/", "a">>)>>,
     <<Str(<<"a", "/", "?">>), Str(<<"/">>)>>,
     <<Str(<<"/", "a", "/", "b", "#", "a">>), Num(1)>>,
     <<RegExp(1, <<"/", "a">>, TRUE, 0)>>,
     <<RegExp(1, <<"a">>, TRUE, 1), RegExp(2, <<"b">>, FALSE, 0)>>,
     <<Str(<<"a">>), RegExp(1, <<"a", "/">>, TRUE, 0), RegExp(2, <<"/", "b">>, TRUE, 2)>>}

RouteUserOptions == {[skipRoutes |-> l] : l \in SkipRouteLists}

CallCleanUrl ==
    /\ calls < MaxCalls
    /\ \E url \in Paths :
        /\ input' = [input EXCEPT !.value = url]
        /\ output' = IF cleanUrl(url) = <<>> THEN Null ELSE Str(cleanUrl(url)[1])
    /\ calls' = calls + 1
    /\ pc' = "cleaned"
    /\ UNCHANGED <<options, again, request, events>>

CallShouldSkipRoute ==
    /\ calls < MaxCalls
    /\ \E requestPath \in Paths :
        LET r == shouldSkipRoute(requestPath, options.skipRoutes)
        IN /\ input' = [input EXCEPT !.value = requestPath]
           /\ output' = Bool(r.skip)
           /\ options' = [options EXCEPT !.skipRoutes.regex = r.regex]
    /\ calls' = calls + 1
    /\ pc' = "done"
    /\ UNCHANGED <<again, request, events>>

InitRoute ==
    /\ \E u \in RouteUserOptions :
        /\ options = resolveOptions(u)
        /\ input = [userOptions |-> u, value |-> Undefined]
    /\ output = NoValue
    /\ again = NoValue
    /\ events = <<>>
    /\ calls = 0
    /\ request = NoRequest
    /\ pc = "start"

NextRoute == CallCleanUrl \/ CallShouldSkipRoute

SpecRoute == InitRoute /\ [][NextRoute]_vars

\* the text before the first '?' or '#'
RECURSIVE beforeSuffix(_)
beforeSuffix(s) ==
    IF s = <<>> \/ Head(s) \in {"?", "#"} THEN <<>> ELSE <<Head(s)>> \o beforeSuffix(Tail(s))

RECURSIVE dropLeadingSlashes(_)
dropLeadingSlashes(s) ==
    IF s # <<>> /\ Head(s) = "/" THEN dropLeadingSlashes(Tail(s)) ELSE s

RECURSIVE dropTrailingSlashes(_)
dropTrailingSlashes(s) ==
    IF s # <<>> /\ s[Len(s)] = "/" THEN dropTrailingSlashes(SubSeq(s, 1, Len(s) - 1)) ELSE s

\* the path without query or fragment suffix and without the slash runs at its ends
pathCore(s) == dropTrailingSlashes(dropLeadingSlashes(beforeSuffix(s)))

\* the string routes of the raw skip list that the resolver keeps
keptRoutes ==
    {r \in Range(input.userOptions.skipRoutes) : isString(r) /\ cleanUrl(r) # <<>>}

\* C11: cleanUrl ignores the slash runs at both ends and a query or fragment suffix
\* (it is '/' followed by what is left, or null when nothing is left); a path that
\* cleans to the same as a kept string skip route is skipped; with an empty exact
\* set and an empty regex list no path is skipped.
C11_RouteNormalisation ==
    /\ (pc = "cleaned" /\ isString(input.value)) =>
            output = IF pathCore(input.value.s) = <<>> THEN Null
                     ELSE Str(<<"/">> \o pathCore(input.value.s))
    /\ (pc = "cleaned" /\ ~isString(input.value)) => output = Null
    /\ pc = "done" =>
            /\ \A r \in keptRoutes :
                    (isString(input.value) /\ pathCore(input.value.s) = pathCore(r.s)) => output.b
            /\ (options.skipRoutes.exact = {} /\ options.skipRoutes.regex = <<>>) => ~output.b

C11_Witness ==
    /\ pc = "done"
    /\ input.userOptions.skipRoutes = <<Str(<<"a", "/", "?">>), Str(<<"/">>)>>
    /\ options.skipRoutes.exact = {<<"/", "a">>}
    /\ input.value = Str(<<"/", "a", "/">>)
    /\ output = Bool(TRUE)

\* whether source occurs in s, and where its first occurrence ends
occursIn(source, s) ==
    \E i \in 1..(Len(s) - Len(source) + 1) : SubSeq(s, i, i + Len(source) - 1) = source
endOfFirst(source, s) ==
    (CHOOSE i \in 1..(Len(s) - Len(source) + 1) :
        /\ SubSeq(s, i, i + Len(source) - 1) = source
        /\ \A j \in 1..(i - 1) : SubSeq(s, j, j + Len(source) - 1) # source)
    + Len(source) - 1

\* what the path and the skip set alone say: the cleaned path is in the exact set
\* or holds the source of a pattern
skipped(path, skipRoutes) ==
    /\ isString(path)
    /\ pathCore(path.s) # <<>>
    /\ \/ (<<"/">> \o pathCore(path.s)) \in skipRoutes.exact
       \/ \E i \in 1..Len(skipRoutes.regex) :
            occursIn(skipRoutes.regex[i].source, <<"/">> \o pathCore(path.s))

\* the cursors a call for path leaves, given the cursors before it: an exact hit
\* touches no pattern; otherwise the patterns are tried in order up to the first
\* that matches, each from cursor 0, and the ones after it are not touched
cursorsAfter(path, skipRoutes, before, after) ==
    LET cleaned == <<"/">> \o pathCore(path.s)
        matching == {i \in 1..Len(before) : occursIn(before[i].source, cleaned)}
    IN IF ~isString(path) \/ pathCore(path.s) = <<>> \/ cleaned \in skipRoutes.exact
       THEN after = before
       ELSE \A i \in 1..Len(before) :
                IF \E j \in matching : j < i THEN after[i] = before[i]
                ELSE after[i] = [before[i] EXCEPT !.lastIndex =
                                    IF i \in matching /\ before[i].global
                                    THEN endOfFirst(before[i].source, cleaned) ELSE 0]

\* C13: in any sequence of shouldSkipRoute calls on one skip set the result depends
\* on the path and the skip set only, global patterns included; the exact set is
\* looked up first and the patterns are then tried in order, each from cursor 0,
\* stopping at the first match.
C13_HistoryIndependent ==
    /\ [](pc = "done" => output.b = skipped(input.value, options.skipRoutes))
    /\ [][pc' = "done" =>
            cursorsAfter(input'.value, options.skipRoutes,
                         options.skipRoutes.regex, options'.skipRoutes.regex)]_vars

C13_Witness ==
    /\ pc = "done"
    /\ calls = MaxCalls
    /\ input.value = Str(<<"/", "b", "/">>)
    /\ options.skipRoutes.exact = {<<"/", "a">>}
    /\ Len(options.skipRoutes.regex) = 2
    /\ options.skipRoutes.regex[1].lastIndex = 0
    /\ options.skipRoutes.regex[2] = RegExp(2, <<"/", "b">>, TRUE, 2)
    /\ output = Bool(TRUE)

(***************************************************************************)
(* sanitizeString, sanitizeObject and sanitizeValue called again and again *)
(* on one resolved options object                                          *)
(***************************************************************************)
SharedStrings ==
    {Str(<<"a">>), Str(<<"$", "a">>), Str(<<"a", "$">>), Str(<<"a", "a", "$">>), Email}
SharedKeys == {<<"a">>, <<"$", "a">>, <<"a", "a", "$">>, <<"a", "@", "b", ".", "a", "a">>}
SharedObjects ==
    {Obj(1, << <<k, v>> >>) : k \in SharedKeys, v \in SharedStrings}
    \cup {Obj(1, << <<<<"b">>, v>>, <<k, w>> >>) :
            k \in SharedKeys, v \in {Str(<<"a">>), Str(<<"a", "$">>), Str(<<"a", "a", "@">>)},
            w \in {Str(<<"a">>), Null}}
SharedValues ==
    SharedStrings \cup {Arr(1, <<o>>) : o \in SharedObjects} \cup {Arr(1, <<Str(<<"a", "$">>)>>)}

SharedUserOptions ==
    {[removeMatches |-> rm, removeEmpty |-> re, patterns |-> p] :
        rm \in BOOLEAN, re \in BOOLEAN, p \in {PATTERNS, <<{"@"}>>}}

CallSanitizeStringShared ==
    /\ calls < MaxCalls
    /\ \E str \in SharedStrings, isValue \in BOOLEAN :
        LET r == fxSanitizeString(str, options, isValue, shared)
        IN /\ input' = [fn |-> "sanitizeString", value |-> str, isValue |-> isValue,
                        depth |-> 0, lastIndex |-> options._lastIndex]
           /\ output' = r.value
           /\ Leave(r.st)
    /\ calls' = calls + 1
    /\ pc' = "done"
    /\ UNCHANGED <<again, request>>

CallSanitizeObjectShared ==
    /\ calls < MaxCalls
    /\ \E obj \in SharedObjects :
        LET r == fxSanitizeObject(obj, options, 0, shared)
        IN /\ input' = [fn |-> "sanitizeObject", value |-> obj, isValue |-> FALSE,
                        depth |-> 0, lastIndex |-> options._lastIndex]
           /\ output' = r.value
           /\ Leave(r.st)
    /\ calls' = calls + 1
    /\ pc' = "done"
    /\ UNCHANGED <<again, request>>

CallSanitizeValueShared ==
    /\ calls < MaxCalls
    /\ \E value \in SharedValues :
        LET r == fxSanitizeValue(value, options, FALSE, 0, shared)
        IN /\ input' = [fn |-> "sanitizeValue", value |-> value, isValue |-> FALSE,
                        depth |-> 0, lastIndex |-> options._lastIndex]
           /\ output' = r.value
           /\ Leave(r.st)
    /\ calls' = calls + 1
    /\ pc' = "done"
    /\ UNCHANGED <<again, request>>

InitShared ==
    /\ options \in {resolveOptions(u) : u \in SharedUserOptions}
    /\ input = [fn |-> "none", value |-> Undefined, isValue |-> FALSE, depth |-> 0,
                lastIndex |-> 0]
    /\ output = NoValue
    /\ again = NoValue
    /\ events = <<>>
    /\ calls = 0
    /\ request = NoRequest
    /\ pc = "start"

NextShared == CallSanitizeStringShared \/ CallSanitizeObjectShared \/ CallSanitizeValueShared

SpecShared == InitShared /\ [][NextShared]_vars

\* the options as resolveOptions returns them: the cursor at 0
freshlyResolved == [options EXCEPT !._lastIndex = 0]
fresh == [lastIndex |-> 0, events |-> <<>>, raised |-> <<>>]

\* C12: in any sequence of sanitizeString, sanitizeObject and sanitizeValue calls on
\* one resolved configuration, with removeMatches or without, every call returns
\* what it returns on a freshly resolved configuration, wherever the calls before it
\* left the cursor of the combined pattern.
C12_NoCursorLeak ==
    pc = "done" =>
        CASE input.fn = "sanitizeString" ->
                /\ output = fxSanitizeString(input.value, freshlyResolved, input.isValue, fresh).value
                /\ output = sanitizeString(input.value, freshlyResolved, input.isValue)
          [] input.fn = "sanitizeObject" ->
                /\ output = fxSanitizeObject(input.value, freshlyResolved, 0, fresh).value
                /\ output = sanitizeObject(input.value, freshlyResolved, 0)
          [] input.fn = "sanitizeValue" ->
                /\ output = fxSanitizeValue(input.value, freshlyResolved, FALSE, 0, fresh).value
                /\ output = sanitizeValue(input.value, freshlyResolved, FALSE, 0)

C12_Witness ==
    /\ pc = "done"
    /\ options.removeMatches
    /\ input.fn = "sanitizeObject"
    /\ input.lastIndex = 3
    /\ input.value = Obj(1, << <<<<"$", "a">>, Str(<<"a">>)>> >>)
    /\ output = Obj(Fresh, <<>>)

(***************************************************************************)
(* index.js, helpers.js: resolveOptions on raw input.  An options mapping  *)
(* is a plain object whose fields are a record of values; Absent marks a   *)
(* key the mapping does not hold.                                          *)
(***************************************************************************)
Absent == [kind |-> "absent"]
Options(ref, fields) == [kind |-> "obj", ref |-> ref, fields |-> fields]

isBoolean(v) == v.kind = "bool"
isNumber(v) == v.kind = "num"
isFunction(v) == v.kind = "function"

\* the validators of helpers.js, in the order of the table
ValidatorKeys ==
    <<"replaceWith", "removeMatches", "sanitizeObjects", "mode", "skipRoutes", "contentTypes",
      "customSanitizer", "onSanitize", "recursive", "removeEmpty", "maxDepth", "patterns",
      "allowedKeys", "deniedKeys", "stringOptions", "arrayOptions", "debug">>

\* a maxDepth validator that takes every number
validators_anyDepth(key, v) ==
    CASE key = "replaceWith" -> isString(v)
      [] key \in {"removeMatches", "recursive", "removeEmpty"} -> isBoolean(v)
      [] key \in {"sanitizeObjects", "skipRoutes", "patterns"} -> isArray(v)
      [] key = "mode" -> isString(v) /\ v.s \in {<<"a", "u", "t", "o">>,
                                                 <<"m", "a", "n", "u", "a", "l">>}
      [] key \in {"contentTypes", "allowedKeys", "deniedKeys"} -> v = Null \/ isArray(v)
      [] key \in {"customSanitizer", "onSanitize"} -> v = Null \/ isFunction(v)
      [] key = "maxDepth" -> v = Null \/ isNumber(v)
      [] key \in {"stringOptions", "arrayOptions", "debug"} -> isPlainObject(v)

validators(key, v) ==
    CASE key = "replaceWith" -> isString(v)
      [] key \in {"removeMatches", "recursive", "removeEmpty"} -> isBoolean(v)
      [] key \in {"sanitizeObjects", "skipRoutes", "patterns"} -> isArray(v)
      [] key = "mode" -> isString(v) /\ v.s \in {<<"a", "u", "t", "o">>,
                                                 <<"m", "a", "n", "u", "a", "l">>}
      [] key \in {"contentTypes", "allowedKeys", "deniedKeys"} -> v = Null \/ isArray(v)
      [] key \in {"customSanitizer", "onSanitize"} -> v = Null \/ isFunction(v)
      [] key = "maxDepth" -> v = Null \/ (isNumber(v) /\ v.n > 0)
      [] key \in {"stringOptions", "arrayOptions", "debug"} -> isPlainObject(v)

\* userOptions[key]: undefined for a key the mapping does not hold
get(userOptions, key) ==
    IF key \in DOMAIN userOptions.fields /\ userOptions.fields[key] # Absent
    THEN userOptions.fields[key] ELSE Undefined

\* the keys, in table order, whose value in the merged options is neither
\* undefined nor valid.  A key the user does not hold has its default; the three
\* nested groups are plain mappings once merged.
invalidKeys(userOptions) ==
    SelectSeq(ValidatorKeys,
              LAMBDA key :
                /\ key \notin {"stringOptions", "arrayOptions", "debug"}
                /\ key \in DOMAIN userOptions.fields
                /\ userOptions.fields[key] # Absent
                /\ userOptions.fields[key] # Undefined
                /\ ~validators(key, userOptions.fields[key]))

\* { ...defaults, ...(group || {}) } of a nested group
mergeGroup(defaults, group) ==
    IF ~Truthy(group) THEN defaults
    ELSE [k \in DOMAIN defaults \cup DOMAIN group.fields |->
            IF k \in DOMAIN group.fields /\ group.fields[k] # Absent
            THEN group.fields[k] ELSE defaults[k]]

\* resolveOptions(userOptions) on any input: a NoSQLSanitizeError, a TypeError of
\* the run time, or the configuration (of which the fields below are kept)
resolveOptionsRaw(argument) ==
    LET userOptions == IF argument = Undefined THEN Options(Fresh, <<>>) ELSE argument
        invalidGroup(name) ==
            get(userOptions, name) # Undefined /\ ~isPlainObject(get(userOptions, name))
        rawPatterns == get(userOptions, "patterns")
        rawContentTypes == get(userOptions, "contentTypes")
    IN IF ~isPlainObject(userOptions)
       THEN NoSQLSanitizeError(<<"Options must be an object">>, "type_error")
       ELSE IF invalidGroup("debug")
       THEN NoSQLSanitizeError(<<"Invalid configuration", "debug">>, "type_error")
       ELSE IF invalidGroup("stringOptions")
       THEN NoSQLSanitizeError(<<"Invalid configuration", "stringOptions">>, "type_error")
       ELSE IF invalidGroup("arrayOptions")
       THEN NoSQLSanitizeError(<<"Invalid configuration", "arrayOptions">>, "type_error")
       ELSE IF invalidKeys(userOptions) # <<>>
       THEN NoSQLSanitizeError(<<"Invalid configuration", Head(invalidKeys(userOptions))>>,
                               "type_error")
       ELSE IF isArray(rawPatterns)
                /\ \E i \in 1..Len(rawPatterns.items) :
                        rawPatterns.items[i].kind \in {"null", "undef"}
       THEN TypeError
       ELSE IF isArray(rawContentTypes)
                /\ \E i \in 1..Len(rawContentTypes.items) : ~isString(rawContentTypes.items[i])
       THEN TypeError
       ELSE [kind |-> "config",
             maxDepth |-> IF get(userOptions, "maxDepth") # Undefined
                          THEN get(userOptions, "maxDepth") ELSE Null,
             removeMatches |-> IF "removeMatches" \in DOMAIN userOptions.fields
                                  /\ userOptions.fields["removeMatches"] # Absent
                               THEN userOptions.fields["removeMatches"] ELSE Bool(FALSE),
             stringOptions |-> mergeGroup([trim |-> Bool(FALSE), lowercase |-> Bool(FALSE),
                                           maxLength |-> Null],
                                          get(userOptions, "stringOptions")),
             arrayOptions |-> mergeGroup([filterNull |-> Bool(FALSE), distinct |-> Bool(FALSE)],
                                         get(userOptions, "arrayOptions"))]

(***************************************************************************)
(* Resolving raw options: one call of resolveOptions on a bounded family   *)
(* of arguments.                                                           *)
(***************************************************************************)
RawGroups(name) ==
    CASE name = "stringOptions" ->
            {Absent, Null, Undefined, Str(<<"a">>),
             Options(1, [trim |-> Bool(TRUE)]), Options(1, [trim |-> Str(<<"a">>)]),
             Options(1, [maxLength |-> Str(<<"a">>)])}
      [] name = "arrayOptions" ->
            {Absent, Arr(1, <<>>), Options(1, [distinct |-> Bool(TRUE)]),
             Options(1, [distinct |-> Num(1)])}
      [] name = "debug" ->
            {Absent, Str(<<"a">>), Options(1, [level |-> Num(1)])}

RawMapping(rm, md, mo, so, ao, db, ct, pa, cs) ==
    Options(1, [removeMatches |-> rm, maxDepth |-> md, mode |-> mo, stringOptions |-> so,
                arrayOptions |-> ao, debug |-> db, contentTypes |-> ct, patterns |-> pa,
                customSanitizer |-> cs])

\* the top-level fields vary with the groups absent, then the groups vary
RawMappings ==
    {RawMapping(rm, md, mo, Absent, Absent, Absent, ct, pa, cs) :
        rm \in {Absent, Bool(TRUE), Null},
        md \in {Absent, Null, Undefined, Num(1), Num(0), Num(-1), Str(<<"a">>)},
        mo \in {Absent, Str(<<"m", "a", "n", "u", "a", "l">>), Str(<<"a">>)},
        ct \in {Absent, Null, Arr(1, <<Str(<<"j">>)>>), Arr(1, <<Num(1)>>), Str(<<"j">>)},
        pa \in {Absent, Arr(1, <<Null>>), Num(1)},
        cs \in {Absent, Function(1), Str(<<"a">>)}}
    \cup
    {RawMapping(Absent, md, Absent, so, ao, db, ct, Absent, Absent) :
        md \in {Absent, Num(1), Num(0)},
        so \in RawGroups("stringOptions"),
        ao \in RawGroups("arrayOptions"),
        db \in RawGroups("debug"),
        ct \in {Absent, Arr(1, <<Num(1)>>)}}

RawArguments ==
    RawMappings \cup {Undefined, Null, Str(<<"a">>), Num(42), Arr(1, <<>>), Function(1),
                      Options(1, <<>>)}

CallResolveOptions ==
    /\ pc = "start"
    /\ output' = resolveOptionsRaw(input)
    /\ pc' = "done"
    /\ UNCHANGED <<options, input, again, request, events, calls>>

InitResolve ==
    /\ input \in RawArguments
    /\ options = resolveOptions(<<>>)
    /\ output = Undefined
    /\ again = Undefined
    /\ request = Undefined
    /\ events = <<>>
    /\ calls = 0
    /\ pc = "start"

NextResolve == CallResolveOptions

SpecResolve == InitResolve /\ [][NextResolve]_vars

\* the kinds the documentation gives to the option fields of the family
given(v) == v # Absent /\ v # Undefined
heldFields(o) == {k \in DOMAIN o.fields : o.fields[k] # Absent}
topLevelKindWrong(o) ==
    \/ given(get(o, "removeMatches")) /\ o.fields["removeMatches"].kind # "bool"
    \/ given(get(o, "maxDepth")) /\ o.fields["maxDepth"].kind \notin {"null", "num"}
    \/ given(get(o, "mode")) /\ o.fields["mode"] \notin {Str(<<"a", "u", "t", "o">>),
                                                        Str(<<"m", "a", "n", "u", "a", "l">>)}
    \/ given(get(o, "contentTypes")) /\ o.fields["contentTypes"].kind \notin {"null", "arr"}
    \/ given(get(o, "patterns")) /\ o.fields["patterns"].kind # "arr"
    \/ given(get(o, "customSanitizer"))
         /\ o.fields["customSanitizer"].kind \notin {"null", "function"}
    \/ \E g \in {"stringOptions", "arrayOptions", "debug"} :
            given(get(o, g)) /\ o.fields[g].kind # "obj"
nestedFieldKindWrong(o) ==
    \/ /\ get(o, "stringOptions").kind = "obj"
       /\ \/ get(get(o, "stringOptions"), "trim").kind \notin {"undef", "bool"}
          \/ get(get(o, "stringOptions"), "maxLength").kind \notin {"undef", "null", "num"}
    \/ /\ get(o, "arrayOptions").kind = "obj"
       /\ get(get(o, "arrayOptions"), "distinct").kind \notin {"undef", "bool"}
    \/ /\ get(o, "debug").kind = "obj"
       /\ get(get(o, "debug"), "level").kind \notin {"undef", "str"}
nonPositiveDepth(o) == get(o, "maxDepth").kind = "num" /\ get(o, "maxDepth").n <= 0
badElement(o) ==
    \/ /\ get(o, "patterns").kind = "arr"
       /\ \E i \in 1..Len(get(o, "patterns").items) :
            get(o, "patterns").items[i].kind \in {"null", "undef"}
    \/ /\ get(o, "contentTypes").kind = "arr"
       /\ \E i \in 1..Len(get(o, "contentTypes").items) :
            get(o, "contentTypes").items[i].kind # "str"
isConfigurationError(v) == v.kind = "error" /\ v.name = "NoSQLSanitizeError"

\* C14 as stated: resolveOptions fails with NoSQLSanitizeError when the raw
\* input is not a plain mapping, when any option field, the fields of the
\* nested groups included, has the wrong kind, or when maxDepth is a
\* non-positive number; otherwise it returns a configuration.
C14_FailsOnAnyWrongKind ==
    pc = "done" =>
        LET o == IF input = Undefined THEN Options(Fresh, <<>>) ELSE input
        IN IF \/ o.kind # "obj"
              \/ topLevelKindWrong(o) \/ nestedFieldKindWrong(o) \/ nonPositiveDepth(o)
           THEN isConfigurationError(output)
           ELSE output.kind = "config" \/ badElement(o)

\* C14, amended: resolveOptions fails with NoSQLSanitizeError exactly when its
\* argument is given and is not a plain mapping, when a top-level option field
\* or a nested group as a whole is given with the wrong kind, or when maxDepth
\* is a non-positive number.  The fields inside stringOptions / arrayOptions /
\* debug are not checked and are merged as given.  Otherwise it returns a
\* configuration, unless the patterns list holds null / undefined or the
\* contentTypes list holds a non-string, which raise a TypeError.
C14_FailsOnTopLevelKind ==
    pc = "done" =>
        LET o == IF input = Undefined THEN Options(Fresh, <<>>) ELSE input
        IN IF o.kind # "obj" \/ topLevelKindWrong(o) \/ nonPositiveDepth(o)
           THEN isConfigurationError(output)
           ELSE IF badElement(o)
           THEN output = TypeError
           ELSE /\ output.kind = "config"
                /\ get(o, "stringOptions").kind = "obj"
                     => \A f \in heldFields(get(o, "stringOptions")) :
                            output.stringOptions[f] = get(o, "stringOptions").fields[f]

\* a nested group with a field of the wrong kind was resolved to a configuration
C14_Witness ==
    /\ pc = "done"
    /\ input.kind = "obj"
    /\ nestedFieldKindWrong(input)
    /\ output.kind = "config"
    /\ output.stringOptions.trim = Str(<<"a">>)

(***************************************************************************)
(* The Express middleware and the Fastify plugin: a request arrives, goes  *)
(* through the middleware or the preHandler hook, and reaches the handler, *)
(* which in manual mode may call the request's sanitize method.            *)
(***************************************************************************)
\* the options the Fastify plugin resolves: its own default for sanitizeObjects
\* under the options of the registration
fastifyOptions(userOptions) ==
    resolveOptions(Merge([sanitizeObjects |-> <<"body", "params", "query">>], userOptions))

\* whether a call of the request's sanitize method resolves options of its own;
\* customOpts is <<>> for a call without argument and <<overrides>> otherwise.
\* Express takes any argument, Fastify an argument that holds a key.
overridden(framework, customOpts) ==
    IF framework = "express" THEN customOpts # <<>>
    ELSE customOpts # <<>> /\ DOMAIN customOpts[1] # {}

\* a sanitize method that always works with the options of the registration
finalOptions_ignoreOverrides(framework, userOptions, opts, customOpts) == opts

finalOptions(framework, userOptions, opts, customOpts) ==
    IF overridden(framework, customOpts)
    THEN resolveOptions(Merge(userOptions, customOpts[1]))
    ELSE opts

ServerSkipRoutes ==
    {<<>>, <<Str(<<"/", "a">>)>>, <<RegExp(1, <<"a", "/">>, TRUE, 0)>>}

ServerUserOptions ==
    {[mode |-> mo, skipRoutes |-> sr] : mo \in {"auto", "manual"}, sr \in ServerSkipRoutes}
    \cup
    {[mode |-> mo, skipRoutes |-> sr, sanitizeObjects |-> <<"query", "body">>] :
        mo \in {"auto", "manual"}, sr \in ServerSkipRoutes}

\* a request: url always, path (Express) when the framework sets it
ServerRequests ==
    {[kind |-> "req", headers |-> <<>>, get |-> <<>>, chain |-> PlainChain, raised |-> FALSE,
      sanitize |-> FALSE,
      url |-> Str(u), path |-> pa,
      fields |-> [body |-> b, query |-> q,
                  params |-> Obj(3, << <<<<"i", "d">>, Str(<<"$", "a">>)>> >>)]] :
        u \in {<<"/", "a", "?", "x">>, <<"/", "a", "/", "b">>, <<"/", "b">>},
        pa \in {<<>>, <<Str(<<"/", "a">>)>>},
        b \in {Undefined, Obj(1, << <<<<"$", "a">>, Str(<<"$", "b">>)>> >>)},
        q \in {Obj(2, <<>>), Obj(2, << <<<<"x">>, Str(<<"$", "a">>)>> >>)}}

Overrides ==
    {<<>>, << <<>> >>, <<[replaceWith |-> <<"_">>]>>, <<[sanitizeObjects |-> <<"query">>]>>}

\* a middleware that looks at req.url only
requestPathOf_urlOnly(req) == req.url

\* req.path || req.url
requestPathOf(req) ==
    IF req.path # <<>> /\ Truthy(req.path[1]) THEN req.path[1] ELSE req.url

\* the middleware expressMongoSanitize returns
ExpressMiddleware ==
    /\ pc = "arrive"
    /\ input.framework = "express"
    /\ LET r == shouldSkipRoute(requestPathOf(request), options.skipRoutes)
           withCursors == [options EXCEPT !.skipRoutes.regex = r.regex]
           handled == fxHandleRequest(request, withCursors, shared)
       IN IF r.skip
          THEN /\ options' = withCursors
               /\ UNCHANGED <<request, events, calls>>
          ELSE IF options.mode = "auto"
          THEN /\ request' = handleRequest(request, withCursors)
               /\ options' = [withCursors EXCEPT !._lastIndex = handled.st.lastIndex]
               /\ events' = handled.st.events
               /\ calls' = calls + 1
          ELSE /\ request' = [request EXCEPT !.sanitize = TRUE]
               /\ options' = withCursors
               /\ UNCHANGED <<events, calls>>
    /\ pc' = "handler"
    /\ UNCHANGED <<input, output, again>>

\* the preHandler hook of the Fastify plugin, added in auto mode
FastifyPreHandler ==
    /\ pc = "arrive"
    /\ input.framework = "fastify"
    /\ options.mode = "auto"
    /\ LET r == shouldSkipRoute(request.url, options.skipRoutes)
           withCursors == [options EXCEPT !.skipRoutes.regex = r.regex]
           handled == fxHandleRequest(request, withCursors, shared)
       IN IF r.skip
          THEN /\ options' = withCursors
               /\ UNCHANGED <<request, events, calls>>
          ELSE /\ request' = handleRequest(request, withCursors)
               /\ options' = [withCursors EXCEPT !._lastIndex = handled.st.lastIndex]
               /\ events' = handled.st.events
               /\ calls' = calls + 1
    /\ pc' = "handler"
    /\ UNCHANGED <<input, output, again>>

\* manual mode of the Fastify plugin: no hook, the request is decorated
FastifyDecorated ==
    /\ pc = "arrive"
    /\ input.framework = "fastify"
    /\ options.mode = "manual"
    /\ pc' = "handler"
    /\ UNCHANGED <<options, input, output, again, request, events, calls>>

\* the route handler starts: output is what it finds in the request
HandlerRuns ==
    /\ pc = "handler"
    /\ output' = request.fields
    /\ pc' = "handling"
    /\ UNCHANGED <<options, input, again, request, events, calls>>

\* the handler calls the sanitize method the request carries
HandlerCallsSanitize ==
    /\ pc = "handling"
    /\ request.sanitize
    /\ \E customOpts \in Overrides :
        LET finalOpts == finalOptions(input.framework, input.userOptions, options, customOpts)
            ownOpts == ~overridden(input.framework, customOpts)
            handled == fxHandleRequest(request, finalOpts,
                                       IF ownOpts THEN shared
                                       ELSE [lastIndex |-> 0, events |-> events,
                                             raised |-> <<>>])
        IN /\ request' = handleRequest(request, finalOpts)
           /\ options' = IF ownOpts THEN [options EXCEPT !._lastIndex = handled.st.lastIndex]
                         ELSE options
           /\ events' = handled.st.events
           /\ again' = customOpts
    /\ calls' = calls + 1
    /\ pc' = "sanitized"
    /\ UNCHANGED <<input, output>>

InitServer ==
    /\ \E framework \in {"express", "fastify"}, u \in ServerUserOptions, req \in ServerRequests :
        /\ input = [framework |-> framework, userOptions |-> u, request |-> req]
        /\ options = IF framework = "express" THEN resolveOptions(u) ELSE fastifyOptions(u)
        /\ request = [req EXCEPT !.sanitize = framework = "fastify" /\ u.mode = "manual"]
    /\ output = NoValue
    /\ again = <<>>
    /\ events = <<>>
    /\ calls = 0
    /\ pc = "arrive"

NextServer ==
    \/ ExpressMiddleware
    \/ FastifyPreHandler
    \/ FastifyDecorated
    \/ HandlerRuns
    \/ HandlerCallsSanitize

SpecServer == InitServer /\ [][NextServer]_vars

\* what the registration resolved, the path the framework hands to the skip
\* test, and the options of the sanitize call the handler made
registered ==
    IF input.framework = "express" THEN resolveOptions(input.userOptions)
    ELSE fastifyOptions(input.userOptions)
lookedAt ==
    IF input.framework = "express" /\ input.request.path # <<>> THEN input.request.path[1]
    ELSE input.request.url
routeSkipped == skipped(lookedAt, registered.skipRoutes)
optionsOfCall ==
    IF again # <<>> /\ (input.framework = "express" \/ DOMAIN again[1] # {})
    THEN resolveOptions(Merge(input.userOptions, again[1]))
    ELSE registered

\* C15: in auto mode the handler finds the configured fields of a request that
\* is not skipped already sanitized; in manual mode the fields stay as they
\* arrived until the handler calls the request's sanitize method, and are
\* sanitized once it has.
C15_ModeOrdering ==
    /\ registered.mode = "auto" /\ ~routeSkipped /\ pc \in {"handling", "sanitized"}
        => output = handleRequest(input.request, registered).fields
    /\ registered.mode = "manual" /\ pc \in {"arrive", "handler", "handling"}
        => request.fields = input.request.fields
    /\ registered.mode = "manual" /\ pc \in {"handling", "sanitized"}
        => output = input.request.fields
    /\ registered.mode = "manual" /\ pc = "sanitized"
        => request.fields = handleRequest(input.request, optionsOfCall).fields

\* a manual-mode handler found the request as it arrived, called sanitize with
\* an override, and the fields changed
C15_Witness ==
    /\ pc = "sanitized"
    /\ registered.mode = "manual"
    /\ again = <<[replaceWith |-> <<"_">>]>>
    /\ output = input.request.fields
    /\ request.fields # input.request.fields
    /\ request.fields.query = Obj(Fresh, << <<<<"x">>, Str(<<"_", "a">>)>> >>)

\* C16: in auto mode a request whose cleaned path is in the exact skip set or
\* matches a skip pattern reaches the handler with body, query and params as
\* they arrived and without a call of handleRequest; every other request has
\* been through handleRequest once.
C16_SkippedUntouched ==
    registered.mode = "auto" /\ pc \in {"handler", "handling"} =>
        IF routeSkipped
        THEN /\ request = input.request
             /\ calls = 0
             /\ events = <<>>
             /\ pc = "handling" => output = input.request.fields
        ELSE /\ calls = 1
             /\ request = handleRequest(input.request, registered)

\* an Express request skipped by its path although its url is not in the skip
\* set, reaching the handler with a dangerous body
C16_Witness ==
    /\ pc = "handling"
    /\ registered.mode = "auto"
    /\ input.framework = "express"
    /\ routeSkipped
    /\ ~skipped(input.request.url, registered.skipRoutes)
    /\ output.body = Obj(1, << <<<<"$", "a">>, Str(<<"$", "b">>)>> >>)

\* C17: when the Fastify plugin is registered without a sanitizeObjects option,
\* every sanitization it performs covers body, params and query: the auto-mode
\* hook, sanitize() and sanitize(overrides) with overrides that do not set
\* sanitizeObjects.
C17_FastifyDefaultFields ==
    /\ input.framework = "fastify"
    /\ "sanitizeObjects" \notin DOMAIN input.userOptions
    /\ \/ registered.mode = "auto" /\ ~routeSkipped /\ pc = "handler"
       \/ /\ pc = "sanitized"
          /\ again = <<>> \/ "sanitizeObjects" \notin DOMAIN again[1]
    => request.fields =
         handleRequest(input.request,
                       [optionsOfCall EXCEPT !.sanitizeObjects = <<"body", "params", "query">>])
         .fields

(***************************************************************************)
(* The audit hook: one call of sanitizeValue under options that may carry  *)
(* onSanitize; events is the sequence of the hook's arguments.             *)
(***************************************************************************)
HookLeaves ==
    {Str(<<"$", "a">>), Str(<<"a">>), Str(<<"$">>), Num(0),
     Arr(2, <<Str(<<"$", "a">>)>>), Obj(2, << <<<<"b">>, Str(<<"$", "b">>)>> >>)}

HookValues ==
    {Str(<<"$", "a">>), Str(<<"a">>), Arr(1, <<Str(<<"$", "a">>), Str(<<"a">>)>>)}
    \cup {Obj(1, << <<k, v>> >>) : k \in {<<"a">>, <<"$", "k">>, <<"$">>}, v \in HookLeaves}
    \cup {Obj(1, << <<<<"a">>, v>>, <<<<"c">>, w>> >>) : v \in HookLeaves, w \in HookLeaves}
    \cup {Arr(1, <<Obj(2, << <<<<"a">>, v>> >>)>>) : v \in HookLeaves}

HookUserOptions ==
    {[removeMatches |-> rm, removeEmpty |-> re, onSanitize |-> on] :
        rm \in BOOLEAN, re \in BOOLEAN, on \in {<<>>, <<"hook">>}}

CallSanitizeValueHooked ==
    /\ pc = "start"
    /\ output' = sanitizeValue(input.value, options, FALSE, 0)
    /\ Leave(fxSanitizeValue(input.value, options, FALSE, 0, shared).st)
    /\ calls' = calls + 1
    /\ pc' = "done"
    /\ UNCHANGED <<input, again, request>>

InitHook ==
    /\ options \in {resolveOptions(u) : u \in HookUserOptions}
    /\ input \in {[fn |-> "sanitizeValue", value |-> v] : v \in HookValues}
    /\ output = NoValue
    /\ again = NoValue
    /\ events = <<>>
    /\ calls = 0
    /\ request = NoRequest
    /\ pc = "start"

NextHook == CallSanitizeValueHooked

SpecHook == InitHook /\ [][NextHook]_vars

\* the string values of a value, at any place: the value itself, array elements,
\* mapping values; changedStrings counts those sanitizeString changes
RECURSIVE stringValues(_)
stringValues(v) ==
    IF isString(v) THEN <<v>>
    ELSE IF isArray(v) /\ v.items # <<>>
    THEN stringValues(Head(v.items)) \o stringValues(Arr(v.ref, Tail(v.items)))
    ELSE IF isPlainObject(v) /\ v.pairs # <<>>
    THEN stringValues(Head(v.pairs)[2]) \o stringValues(Obj(v.ref, Tail(v.pairs)))
    ELSE <<>>
changedStrings(v, opts) ==
    Len(SelectSeq(stringValues(v), LAMBDA s : sanitizeString(s, opts, TRUE) # s))

\* the entries sanitizeObject writes: not dropped for a pattern character in key
\* or string value under removeMatches, nor for an empty key or a falsy value
\* under removeEmpty
entryDropped(key, val, opts) ==
    \/ /\ opts.removeMatches
       /\ \/ \E i \in 1..Len(key) : key[i] \in opts._combinedPattern
          \/ isString(val) /\ \E i \in 1..Len(val.s) : val.s[i] \in opts._combinedPattern
    \/ /\ opts.removeEmpty
       /\ \/ sanitizeString(Str(key), opts, FALSE).s = <<>>
          \/ ~Truthy(sanitizeValue(val, opts, TRUE, 0))

\* the events of the written entries whose string value changes, in the order
\* the entries are visited
RECURSIVE writtenChanges(_, _)
writtenChanges(v, opts) ==
    IF isArray(v) /\ v.items # <<>>
    THEN writtenChanges(Head(v.items), opts) \o writtenChanges(Arr(v.ref, Tail(v.items)), opts)
    ELSE IF isPlainObject(v) /\ v.pairs # <<>>
    THEN LET key == Head(v.pairs)[1]
             val == Head(v.pairs)[2]
         IN (IF entryDropped(key, val, opts) THEN <<>>
             ELSE IF isString(val)
             THEN IF sanitizeString(val, opts, TRUE) # val
                  THEN <<[key |-> key, originalValue |-> val,
                          sanitizedValue |-> sanitizeString(val, opts, TRUE), path |-> key]>>
                  ELSE <<>>
             ELSE writtenChanges(val, opts))
            \o writtenChanges(Obj(v.ref, Tail(v.pairs)), opts)
    ELSE <<>>

Descriptors ==
    {[writable |-> w, set |-> "none", enumerable |-> TRUE, configurable |-> c] :
        w \in BOOLEAN, c \in BOOLEAN}
    \cup
    {[writable |-> FALSE, set |-> s, enumerable |-> FALSE, configurable |-> c] :
        s \in {"stores", "ignores"}, c \in BOOLEAN}

MaybeDescriptors == {<<>>} \cup {<<d>> : d \in Descriptors}

\* a property no object of the chain holds reads as undefined
WriteBackRequests ==
    {[kind |-> "req", headers |-> <<>>, get |-> <<>>, raised |-> FALSE,
      chain |-> <<[OwnData EXCEPT !.query = own], [NoProperties EXCEPT !.query = proto]>>,
      fields |-> [body |-> Undefined,
                  query |-> IF own = <<>> /\ proto = <<>> THEN Undefined ELSE q,
                  params |-> Obj(3, << <<<<"a">>, Str(<<"$", "a">>)>> >>)]] :
        own \in MaybeDescriptors, proto \in MaybeDescriptors,
        q \in {Str(<<"$", "a">>), Obj(2, << <<<<"$", "a">>, Str(<<"a">>)>> >>)}}

WriteBackUserOptions ==
    {[sanitizeObjects |-> so] :
        so \in {<<"query">>, <<"query", "params">>, <<"params", "query">>}}

InitWriteBack ==
    /\ options \in {resolveOptions(u) : u \in WriteBackUserOptions}
    /\ request \in WriteBackRequests
    /\ input = request
    /\ output = NoValue
    /\ again = NoValue
    /\ events = <<>>
    /\ calls = 0
    /\ pc = "start"

NextWriteBack == CallHandleRequest

SpecWriteBack == InitWriteBack /\ [][NextWriteBack]_vars

\* the fields the loop of handleRequest works on, and what it computes for each
processedFields ==
    SelectSeq(options.sanitizeObjects,
              LAMBDA f : /\ input.fields[f].kind \notin {"null", "undef"}
                         /\ ~(isPlainObject(input.fields[f]) /\ input.fields[f].pairs = <<>>)
                         /\ f # "body" \/ shouldSanitizeContentType(input, options.contentTypes))
sanitizedField(f) == sanitizeValue(input.fields[f], options, FALSE, 0)
ownBefore(f) == input.chain[1][f]
nearestBefore(f) ==
    IF input.chain[1][f] # <<>> THEN input.chain[1][f] ELSE input.chain[2][f]
readOnly(f) ==
    nearestBefore(f) # <<>> /\ ~nearestBefore(f)[1].writable /\ nearestBefore(f)[1].set = "none"
\* a read-only own property that is not configurable cannot be redefined
refused(f) == readOnly(f) /\ ownBefore(f) # <<>> /\ ~ownBefore(f)[1].configurable
unreached(i) == \E j \in 1..(i - 1) : refused(processedFields[j])

\* C19 as stated: every processed field reads back as the sanitized result; a
\* field whose nearest descriptor is non-writable without setter is redefined on
\* the request as a writable, enumerable, configurable data property; a writable
\* field, or one without a descriptor on the chain, is assigned directly.
C19_WriteBack ==
    pc = "done" =>
        \A i \in 1..Len(processedFields) :
            LET f == processedFields[i]
            IN /\ request.fields[f] = sanitizedField(f)
               /\ readOnly(f) => request.chain[1][f] = <<DataDescriptor>>
               /\ ownBefore(f) # <<>> /\ ownBefore(f)[1].writable
                    => request.chain[1][f] = ownBefore(f)

\* C19, amended: handleRequest works through the processed fields in order.  A
\* field whose nearest descriptor is non-writable without setter is redefined on
\* the request as a writable, enumerable, configurable data property and reads
\* back sanitized, unless that descriptor is the request's own and not
\* configurable: then the call ends with a TypeError, the field and all later
\* fields stay as they were.  A field whose nearest descriptor has a setter is
\* assigned through the setter and reads back as what the setter stores.  A
\* field whose nearest descriptor is writable is assigned directly and reads
\* back sanitized; an inherited one becomes an own data property.
C19_WriteBackWhenPossible ==
    pc = "done" =>
        /\ request.raised <=> \E i \in 1..Len(processedFields) : refused(processedFields[i])
        /\ request.chain[2] = input.chain[2]
        /\ \A i \in 1..Len(processedFields) :
            LET f == processedFields[i]
            IN IF unreached(i) \/ refused(f)
               THEN request.fields[f] = input.fields[f] /\ request.chain[1][f] = ownBefore(f)
               ELSE IF readOnly(f)
               THEN /\ request.fields[f] = sanitizedField(f)
                    /\ request.chain[1][f] = <<DataDescriptor>>
               ELSE IF nearestBefore(f)[1].set # "none"
               THEN /\ request.fields[f] = IF nearestBefore(f)[1].set = "stores"
                                           THEN sanitizedField(f) ELSE input.fields[f]
                    /\ request.chain[1][f] = ownBefore(f)
               ELSE /\ request.fields[f] = sanitizedField(f)
                    /\ request.chain[1][f] =
                            IF ownBefore(f) # <<>> THEN ownBefore(f) ELSE <<DataDescriptor>>

\* a query that the prototype exposes through a getter without setter was
\* redefined on the request and reads back sanitized
C19_Witness ==
    /\ pc = "done"
    /\ input.chain[1].query = <<>>
    /\ input.chain[2].query = <<[writable |-> FALSE, set |-> "none", enumerable |-> TRUE,
                                 configurable |-> FALSE]>>
    /\ input.fields.query = Obj(2, << <<<<"$", "a">>, Str(<<"a">>)>> >>)
    /\ request.chain[1].query = <<DataDescriptor>>
    /\ request.fields.query = Obj(Fresh, << <<<<"a">>, Str(<<"a">>)>> >>)
    /\ ~request.raised

(***************************************************************************)
(* Totality: the sanitizers called on values of every kind, directly and   *)
(* through sanitizeValue and handleRequest.                                *)
(***************************************************************************)
Date(ref) == [kind |-> "date", ref |-> ref]
Other(ref) == [kind |-> "other", ref |-> ref]
\* a mapping created with a null prototype
NullProtoObj(ref, pairs) == [kind |-> "obj", ref |-> ref, pairs |-> pairs, proto |-> "null"]

KindLeaves ==
    {Null, Undefined, Bool(FALSE), Num(0), Str(<<"$", "a">>), Str(<<>>), Date(5),
     RegExp(6, <<"a">>, TRUE, 0), Other(7), Function(8)}

KindValues ==
    KindLeaves
    \cup {Arr(1, <<a, b>>) : a \in KindLeaves, b \in KindLeaves}
    \cup {Obj(1, << <<k, a>> >>) : k \in {<<"a">>, <<"$">>}, a \in KindLeaves}
    \cup {NullProtoObj(1, << <<<<"$", "a">>, a>> >>) : a \in KindLeaves}
    \cup {Arr(1, <<Obj(2, << <<<<"a">>, Arr(3, <<a>>)>> >>)>>) : a \in KindLeaves}
    \cup {Obj(1, << <<<<"a">>, NullProtoObj(2, << <<<<"b">>, Arr(3, <<a>>)>> >>)>> >>) :
            a \in KindLeaves}

KindUserOptions ==
    {[maxDepth |-> md, removeMatches |-> rm, removeEmpty |-> re, recursive |-> rc,
      arrayOptions |-> [filterNull |-> ao, distinct |-> ao]] :
        md \in {<<>>, <<2>>}, rm \in BOOLEAN, re \in BOOLEAN, rc \in BOOLEAN, ao \in BOOLEAN}

CallSanitizeValueAny ==
    /\ pc = "start"
    /\ output' = sanitizeValue(input.value, options, input.isValue, input.depth)
    /\ Leave(fxSanitizeValue(input.value, options, input.isValue, input.depth, shared).st)
    /\ pc' = "sanitizeValue"
    /\ UNCHANGED <<input, again, request, calls>>

CallSanitizeArrayAny ==
    /\ pc = "start"
    /\ output' = sanitizeArray(input.value, options, input.depth)
    /\ Leave(fxSanitizeArray(input.value, options, input.depth, shared).st)
    /\ pc' = "sanitizeArray"
    /\ UNCHANGED <<input, again, request, calls>>

CallSanitizeObjectAny ==
    /\ pc = "start"
    /\ output' = sanitizeObject(input.value, options, input.depth)
    /\ Leave(fxSanitizeObject(input.value, options, input.depth, shared).st)
    /\ pc' = "sanitizeObject"
    /\ UNCHANGED <<input, again, request, calls>>

CallHandleRequestAny ==
    /\ pc = "start"
    /\ request' = handleRequest(request, options)
    /\ Leave(fxHandleRequest(request, options, shared).st)
    /\ pc' = "handleRequest"
    /\ UNCHANGED <<input, output, again, calls>>

InitTotal ==
    /\ options \in {resolveOptions(u) : u \in KindUserOptions}
    /\ input \in {[value |-> v, isValue |-> iv, depth |-> d] :
                    v \in KindValues, iv \in BOOLEAN, d \in 0..MaxNest}
    /\ request = [kind |-> "req", headers |-> <<>>, get |-> <<>>, chain |-> PlainChain,
                  raised |-> FALSE,
                  fields |-> [body |-> input.value, query |-> input.value, params |-> Undefined]]
    /\ output = NoValue
    /\ again = NoValue
    /\ events = <<>>
    /\ calls = 0
    /\ pc = "start"

NextTotal ==
    \/ CallSanitizeValueAny
    \/ CallSanitizeArrayAny
    \/ CallSanitizeObjectAny
    \/ CallHandleRequestAny

SpecTotal == InitTotal /\ [][NextTotal]_vars

\* an error raised anywhere inside a call ends the call: here it shows as an
\* error in place of the value the inner call would have returned
RECURSIVE raises(_)
raises(v) ==
    \/ v.kind = "error"
    \/ v.kind = "arr" /\ \E i \in 1..Len(v.items) : raises(v.items[i])
    \/ v.kind = "obj" /\ \E i \in 1..Len(v.pairs) : raises(v.pairs[i][2])

\* C20: sanitizeValue returns a value for every kind of value, at every depth
\* argument and under every configuration without hooks, and neither
\* sanitizeValue nor handleRequest reaches the type error of sanitizeArray and
\* sanitizeObject; values that are neither strings, arrays nor plain mappings
\* come back as they are.
C20_SanitizeTotal ==
    /\ pc = "sanitizeValue" =>
        /\ ~raises(output)
        /\ input.value.kind \notin {"str", "arr", "obj"} => output = input.value
    /\ pc = "handleRequest" =>
        /\ ~request.raised
        /\ \A f \in {"body", "query", "params"} : ~raises(request.fields[f])

\* sanitizeValue went through an array holding a pattern object inside a
\* null-prototype mapping and returned it, while sanitizeObject refuses the
\* same array
C20_Witness ==
    /\ pc = "sanitizeValue"
    /\ input.value = Obj(1, << <<<<"a">>, NullProtoObj(2, << <<<<"b">>,
                                    Arr(3, <<RegExp(6, <<"a">>, TRUE, 0)>>)>> >>)>> >>)
    /\ input.depth = 0
    /\ options.maxDepth = <<>>
    /\ options.recursive
    /\ output = Obj(Fresh, << <<<<"a">>, Obj(Fresh, << <<<<"b">>,
                                    Arr(Fresh, <<RegExp(6, <<"a">>, TRUE, 0)>>)>> >>)>> >>)
    /\ sanitizeObject(input.value.pairs[1][2].pairs[1][2], options, 0).kind = "error"

(***************************************************************************)
(* Throws inside handleRequest: custom sanitizers and hooks that throw on  *)
(* some fields and not on others.  output is what the caller of            *)
(* handleRequest catches: <<>> or <<error>>.                               *)
(***************************************************************************)
ThrowFieldValues ==
    {Undefined, Str(<<"$", "a">>), Arr(1, <<Str(<<"$", "a">>)>>),
     Obj(2, << <<<<"$", "a">>, Str(<<"$", "b">>)>> >>), Obj(3, << <<<<"a">>, Num(1)>> >>)}

ThrowRequests ==
    {[kind |-> "req", headers |-> <<>>, get |-> <<>>, chain |-> PlainChain, raised |-> FALSE,
      fields |-> [body |-> b, query |-> q, params |-> pa]] :
        b \in ThrowFieldValues, q \in ThrowFieldValues, pa \in ThrowFieldValues}

ThrowUserOptions ==
    {[sanitizeObjects |-> so, customSanitizer |-> h[1], onSanitize |-> h[2]] :
        so \in {<<"body", "query", "params">>, <<"params", "body">>, <<"query">>},
        h \in {<< <<>>, <<>> >>, << <<>>, <<"hook">> >>, << <<>>, <<"throws">> >>,
               << <<"strict">>, <<>> >>, << <<"arrays">>, <<"throws">> >>,
               << <<"identity">>, <<"throws">> >>}}

\* try { handleRequest(request, options) } catch (error) { ... }
CallHandleRequestCaught ==
    /\ pc = "start"
    /\ LET r == fxHandleRequest(request, options, shared)
       IN /\ request' = r.request
          /\ output' = r.st.raised
          /\ Leave(r.st)
    /\ pc' = "done"
    /\ UNCHANGED <<input, again, calls>>

InitThrow ==
    /\ options \in {resolveOptions(u) : u \in ThrowUserOptions}
    /\ request \in ThrowRequests
    /\ input = request
    /\ output = NoValue
    /\ again = NoValue
    /\ events = <<>>
    /\ calls = 0
    /\ pc = "start"

NextThrow == CallHandleRequestCaught

SpecThrow == InitThrow /\ [][NextThrow]_vars

\* handleRequest on the request as it arrived with one configured field: what
\* the sanitization of that field alone gives, and what it throws
alone(f) == fxHandleRequest(input, [options EXCEPT !.sanitizeObjects = <<f>>], fresh)
throwsAlone(f) == alone(f).st.raised # <<>>
firstThrowing ==
    LET fields == options.sanitizeObjects
    IN IF \E i \in 1..Len(fields) : throwsAlone(fields[i])
       THEN CHOOSE i \in 1..Len(fields) :
                throwsAlone(fields[i]) /\ \A j \in 1..(i - 1) : ~throwsAlone(fields[j])
       ELSE 0

\* C21 as stated: an error raised while one configured field is sanitized
\* reaches the caller unchanged, and every other configured field is sanitized
\* as it is without the error.
C21_AbortsCurrentFieldOnly ==
    pc = "done" /\ firstThrowing # 0 =>
        /\ output = alone(options.sanitizeObjects[firstThrowing]).st.raised
        /\ \A i \in 1..Len(options.sanitizeObjects) :
            LET f == options.sanitizeObjects[i]
            IN ~throwsAlone(f) => request.fields[f] = alone(f).request.fields[f]

\* C21, amended: an error raised while one configured field is sanitized reaches
\* the caller unchanged and ends handleRequest: the fields configured before it
\* stay sanitized, the field itself and every field configured after it stay as
\* they arrived.  Without an error every configured field is sanitized.
C21_AbortsFromCurrentFieldOn ==
    pc = "done" =>
        LET fields == options.sanitizeObjects
            at == firstThrowing
        IN /\ at = 0 => output = <<>>
           /\ at # 0 => output = alone(fields[at]).st.raised /\ output # <<>>
           /\ \A i \in 1..Len(fields) :
                request.fields[fields[i]] =
                    IF at = 0 \/ i < at THEN alone(fields[i]).request.fields[fields[i]]
                    ELSE input.fields[fields[i]]

\* the hook threw in query: body was sanitized before it, params after it is
\* as it arrived although it holds a '$'
C21_Witness ==
    /\ pc = "done"
    /\ options.sanitizeObjects = <<"body", "query", "params">>
    /\ options.customSanitizer = <<>>
    /\ output = <<Error(<<"hook">>)>>
    /\ input.fields.body = Arr(1, <<Str(<<"$", "a">>)>>)
    /\ request.fields.body = Arr(Fresh, <<Str(<<"a">>)>>)
    /\ input.fields.query = Obj(2, << <<<<"$", "a">>, Str(<<"$", "b">>)>> >>)
    /\ request.fields.query = input.fields.query
    /\ request.fields.params = Str(<<"$", "a">>)

(***************************************************************************)
(* stringOptions.maxLength: sanitizeValue on mappings and arrays whose     *)
(* strings and keys are longer than the limit                              *)
(***************************************************************************)
CutStrings ==
    {<<>>, <<"a">>, <<" ", "$", "A", "b">>, <<"$", "$", "a", "b", "a">>, <<"a", "b", " ">>,
     <<"a", "@", "b", ".", "a", "a">>, <<"A", "@", "b", ".", "a", "a">>}
CutKeys == {<<"$", "a", "b", "c">>, <<" ", "A", "a", "b", "a">>, <<"a", "@", "b", ".", "a", "a">>}

CutValues ==
    {Obj(1, << <<k, Str(v)>> >>) : k \in CutKeys, v \in CutStrings}
    \cup {Arr(1, <<Str(v), Str(w)>>) : v \in CutStrings, w \in CutStrings}
    \cup {Obj(1, << <<k, Arr(2, <<Str(v)>>)>> >>) : k \in CutKeys, v \in CutStrings}
    \cup {Arr(1, <<Obj(2, << <<k, Str(v)>> >>)>>) : k \in CutKeys, v \in CutStrings}

CutUserOptions ==
    {[replaceWith |-> r,
      stringOptions |-> [trim |-> t, lowercase |-> l, maxLength |-> m]] :
        r \in {<<>>, <<"_", "_">>}, t \in BOOLEAN, l \in BOOLEAN,
        m \in {<<>>} \cup {<<n>> : n \in 0..(MaxStrLen + 1)}}

InitCut ==
    /\ options \in {resolveOptions(u) : u \in CutUserOptions}
    /\ input \in {[value |-> v, isValue |-> FALSE, depth |-> 0] : v \in CutValues}
    /\ output = NoValue
    /\ again = NoValue
    /\ events = <<>>
    /\ calls = 0
    /\ request = NoRequest
    /\ pc = "start"

NextCut == CallSanitizeValue

SpecCut == InitCut /\ [][NextCut]_vars

\* the strings that are array elements or mapping values of the input, each with
\* the string at its place in the output, and the same for the keys
RECURSIVE valueStrings(_, _)
valueStrings(in, out) ==
    IF ~isContainer(in) THEN {}
    ELSE UNION {(IF isString(Entries(in)[j]) THEN {<<Entries(in)[j].s, Entries(out)[j].s>>}
                 ELSE {})
                \cup valueStrings(Entries(in)[j], Entries(out)[j]) :
                    j \in 1..Len(Entries(in))}
RECURSIVE keyStrings(_, _)
keyStrings(in, out) ==
    IF ~isContainer(in) THEN {}
    ELSE UNION {(IF isPlainObject(in) THEN {<<in.pairs[j][1], out.pairs[j][1]>>} ELSE {})
                \cup keyStrings(Entries(in)[j], Entries(out)[j]) :
                    j \in 1..Len(Entries(in))}

\* substitution, then trim, then lowercase
uncut(s, opts) ==
    LET substituted == replace(s, opts._combinedPattern, opts.replaceWith)
        trimmed == IF opts.stringOptions.trim THEN trim(substituted) ELSE substituted
    IN IF opts.stringOptions.lowercase THEN toLowerCase(trimmed) ELSE trimmed
prefix(s, n) == SubSeq(s, 1, IF n < Len(s) THEN n ELSE Len(s))

\* C22 as stated: with maxLength set to a length n every string that comes out
\* as a mapping value or an array element is at most n long, being cut after
\* substitution, trim and lowercase; a key is never cut.
C22_EveryValueCut ==
    (pc = "done" /\ options.stringOptions.maxLength # <<>>
                /\ options.stringOptions.maxLength[1] > 0) =>
        LET n == options.stringOptions.maxLength[1]
        IN /\ \A v \in valueStrings(input.value, output) :
                /\ Len(v[2]) <= n
                /\ v[2] = prefix(uncut(v[1], options), n)
           /\ \A k \in keyStrings(input.value, output) :
                isEmail(Str(k[1])) \/ k[2] = uncut(k[1], options)

\* C22, amended: with maxLength set to n > 0 every string that is a mapping
\* value or an array element and is not email-shaped comes out as the first n
\* characters of what substitution, trim and lowercase make of it, in this
\* order; an email-shaped string comes out as it is, however long; with
\* maxLength 0 or null nothing is cut; a key is never cut.
C22_NonEmailValuesCut ==
    pc = "done" =>
        LET maxLength == options.stringOptions.maxLength
        IN /\ \A v \in valueStrings(input.value, output) :
                IF isEmail(Str(v[1])) THEN v[2] = v[1]
                ELSE IF maxLength # <<>> /\ maxLength[1] > 0
                THEN /\ Len(v[2]) <= maxLength[1]
                     /\ v[2] = prefix(uncut(v[1], options), maxLength[1])
                ELSE v[2] = uncut(v[1], options)
           /\ \A k \in keyStrings(input.value, output) :
                k[2] = IF isEmail(Str(k[1])) THEN k[1] ELSE uncut(k[1], options)

\* a value cut to two characters after trim and lowercase under a key of four
\* that is not cut
C22_Witness ==
    /\ pc = "done"
    /\ options.stringOptions = [trim |-> TRUE, lowercase |-> TRUE, maxLength |-> <<2>>]
    /\ options.replaceWith = <<>>
    /\ input.value = Obj(1, << << <<" ", "A", "a", "b", "a">>, Str(<<" ", "$", "A", "b">>)>> >>)
    /\ output = Obj(Fresh, << << <<"a", "a", "b", "a">>, Str(<<"a", "b">>)>> >>)

(***************************************************************************)
(* removeEmpty: sanitizeObject on mappings whose keys and values are empty *)
(* or become empty when they are sanitized                                 *)
(***************************************************************************)
EmptyValues ==
    {Null, Undefined, Bool(FALSE), Num(0), Num(1), Str(<<>>), Str(<<"$">>), Str(<<" ">>),
     Str(<<"$", "a">>), Email, Obj(2, <<>>), Arr(2, <<>>),
     Obj(2, << <<<<"$">>, Str(<<"a">>)>>, <<<<"a">>, Str(<<"$">>)>> >>),
     Obj(2, << <<<<"$">>, Email>> >>)}
EmptyKeys == {<<>>, <<"$">>, <<" ">>, <<"$", "a">>, <<"a">>}

EmptyObjects ==
    {Obj(1, << <<k, x>> >>) : k \in EmptyKeys, x \in EmptyValues}
    \cup {Obj(1, << <<<<"b">>, x>>, <<k, y>> >>) :
            k \in EmptyKeys, x \in EmptyValues, y \in {Str(<<"$">>), Email, Num(1)}}

EmptyUserOptions ==
    {[removeEmpty |-> re, removeMatches |-> rm, recursive |-> rc, deniedKeys |-> dk,
      stringOptions |-> [trim |-> t]] :
        re \in BOOLEAN, rm \in BOOLEAN, rc \in BOOLEAN, t \in BOOLEAN,
        dk \in {<<>>, << <<"$">> >>, << <<"a">>, <<"b">> >>}}

InitEmpty ==
    /\ options \in {resolveOptions(u) : u \in EmptyUserOptions}
    /\ input \in {[value |-> v, isValue |-> FALSE, depth |-> 1] : v \in EmptyObjects}
    /\ output = NoValue
    /\ again = NoValue
    /\ events = <<>>
    /\ calls = 0
    /\ request = NoRequest
    /\ pc = "start"

NextEmpty == CallSanitizeObject

SpecEmpty == InitEmpty /\ [][NextEmpty]_vars

\* the mappings a sanitizer built: the result and the mappings inside it that
\* are not handed through
RECURSIVE built(_)
built(v) ==
    IF ~isContainer(v) \/ v.ref # Fresh THEN {}
    ELSE (IF isPlainObject(v) THEN {v} ELSE {})
         \cup UNION {built(Entries(v)[j]) : j \in 1..Len(Entries(v))}

\* the pairs of a value, at any depth, and among them those that the
\* denied-key branch writes under the key it is asked about
RECURSIVE pairsIn(_)
pairsIn(v) ==
    IF ~isContainer(v) THEN {}
    ELSE (IF isPlainObject(v) THEN Range(v.pairs) ELSE {})
         \cup UNION {pairsIn(Entries(v)[j]) : j \in 1..Len(Entries(v))}
keptForEmail(key, val) ==
    \E q \in pairsIn(input.value) :
        /\ q[1] \in options.deniedKeys
        /\ isEmail(q[2])
        /\ key = sanitizeString(Str(q[1]), options, FALSE).s
        /\ val = q[2]

\* removeEmpty decides on the sanitized key and the sanitized value: a pair
\* that no filter and no pattern test stops is written exactly when both are
\* truthy
emptyRule ==
    (options.deniedKeys = {} /\ ~options.removeMatches) =>
        output.pairs = Written(
            [i \in 1..Len(input.value.pairs) |->
                LET sanitizedKey == sanitizeString(Str(input.value.pairs[i][1]), options, FALSE).s
                    val == input.value.pairs[i][2]
                    sanitizedValue == IF ~options.recursive /\ isContainer(val) THEN val
                                      ELSE sanitizeValue(val, options, TRUE, input.depth)
                IN IF sanitizedKey = <<>> \/ ~Truthy(sanitizedValue) THEN <<>>
                   ELSE <<sanitizedKey, sanitizedValue>>], <<>>)

\* C23 as stated: with removeEmpty set a pair is dropped when its sanitized key
\* or its sanitized value is falsy, so every pair of a mapping the Object
\* Sanitizer returns has a non-empty key and a truthy value.
C23_NoEmptyPair ==
    (pc = "done" /\ options.removeEmpty) =>
        /\ emptyRule
        /\ \A m \in built(output) : \A i \in 1..Len(m.pairs) :
                m.pairs[i][1] # <<>> /\ Truthy(m.pairs[i][2])

\* C23, amended: with removeEmpty set a pair that the key filters let through
\* is dropped when its sanitized key or its sanitized value is falsy, so every
\* pair of a mapping the Object Sanitizer returns has a truthy value, and a
\* non-empty key unless it is a pair with a denied key and an email-shaped
\* value: that pair is written under its sanitized key, empty or not.
C23_NoEmptyPairButDeniedEmail ==
    (pc = "done" /\ options.removeEmpty) =>
        /\ emptyRule
        /\ \A m \in built(output) : \A i \in 1..Len(m.pairs) :
                /\ Truthy(m.pairs[i][2])
                /\ m.pairs[i][1] # <<>> \/ keptForEmail(<<>>, m.pairs[i][2])

\* a value that is '$' is dropped for its empty sanitized value while the
\* original is not empty, and a key ' ' for its empty trimmed key
C23_Witness ==
    /\ pc = "done"
    /\ options.removeEmpty /\ ~options.removeMatches /\ options.stringOptions.trim
    /\ options.deniedKeys = {}
    /\ input.value = Obj(1, << <<<<"b">>, Str(<<"$">>)>>, <<<<" ">>, Num(1)>> >>)
    /\ output = Obj(Fresh, <<>>)

(***************************************************************************)
(* recursive: sanitizeArray, sanitizeObject and sanitizeValue on           *)
(* containers that hold containers                                         *)
(***************************************************************************)
ShallowEntries ==
    {Null, Num(0), Str(<<"$", "a">>), Str(<<"a">>), Date(5),
     Obj(2, <<>>), Obj(2, << <<<<"$", "a">>, Str(<<"$", "b">>)>> >>),
     Arr(3, <<Str(<<"$", "a">>)>>), Arr(3, <<Obj(4, << <<<<"$">>, Num(1)>> >>)>>)}

ShallowValues ==
    {Arr(1, <<x, y>>) : x \in ShallowEntries, y \in ShallowEntries}
    \cup {Obj(1, << <<<<"$", "k">>, x>>, <<<<"b">>, y>> >>) :
            x \in ShallowEntries, y \in ShallowEntries}

ShallowUserOptions ==
    {[recursive |-> rc, maxDepth |-> md, removeMatches |-> rm,
      arrayOptions |-> [filterNull |-> fn, distinct |-> di]] :
        rc \in BOOLEAN, md \in {<<>>, <<2>>}, rm \in BOOLEAN, fn \in BOOLEAN, di \in BOOLEAN}

InitShallow ==
    /\ options \in {resolveOptions(u) : u \in ShallowUserOptions}
    /\ input \in {[value |-> v, isValue |-> FALSE, depth |-> d] :
                    v \in ShallowValues, d \in {0, 1}}
    /\ output = NoValue
    /\ again = NoValue
    /\ events = <<>>
    /\ calls = 0
    /\ request = NoRequest
    /\ pc = "start"

NextShallow ==
    \/ CallSanitizeValueAny
    \/ CallSanitizeArrayAny
    \/ CallSanitizeObjectAny

SpecShallow == InitShallow /\ [][NextShallow]_vars

\* an entry of the container as recursive = false leaves it: a container as it
\* is, a string without the pattern characters, anything else as it is
shallow(v) == IF isString(v) THEN Str(strip(v.s)) ELSE v
\* the call the state comes from was made on a container of its kind
onItsKind ==
    \/ pc = "sanitizeArray" /\ isArray(input.value)
    \/ pc = "sanitizeObject" /\ isPlainObject(input.value)
    \/ pc = "sanitizeValue"
noDrop == /\ ~options.removeMatches
          /\ ~options.arrayOptions.filterNull
          /\ ~options.arrayOptions.distinct

\* C24: with recursive = false sanitizeArray and sanitizeObject (and
\* sanitizeValue, which hands a container to them) return a new container whose
\* keys and string entries are sanitized and whose array and mapping entries
\* are the identical values of the input; under the options that drop entries,
\* every array and mapping entry that is returned is one of the input, in the
\* order of the input.
C24_NestedIdentical ==
    (onItsKind /\ ~options.recursive) =>
        /\ output.ref = Fresh /\ output.kind = input.value.kind
        /\ noDrop =>
            /\ Entries(output) = [i \in 1..Len(Entries(input.value)) |->
                                    shallow(Entries(input.value)[i])]
            /\ isPlainObject(output) =>
                    [i \in 1..Len(output.pairs) |-> output.pairs[i][1]]
                        = [i \in 1..Len(input.value.pairs) |-> strip(input.value.pairs[i][1])]
        /\ LET kept == SelectSeq(Entries(output), isContainer)
               held == SelectSeq(Entries(input.value), isContainer)
           IN /\ \A i \in 1..Len(kept) : kept[i].ref # Fresh
              /\ \E idx \in SUBSET (1..Len(held)) :
                    kept = pick(held, idx)
              /\ (~options.removeMatches /\ ~options.arrayOptions.distinct) => kept = held

\* a mapping with a dangerous key and a string next to a mapping with a
\* dangerous key: the first two are sanitized, the nested mapping is the input's
C24_Witness ==
    /\ pc = "sanitizeObject"
    /\ ~options.recursive /\ noDrop
    /\ input.value = Obj(1, << <<<<"$", "k">>, Str(<<"$", "a">>)>>,
                               <<<<"b">>, Obj(2, << <<<<"$", "a">>, Str(<<"$", "b">>)>> >>)>> >>)
    /\ output = Obj(Fresh, << <<<<"k">>, Str(<<"a">>)>>,
                              <<<<"b">>, Obj(2, << <<<<"$", "a">>, Str(<<"$", "b">>)>> >>)>> >>)

(***************************************************************************)
(* handleRequest: the fields it skips and the custom sanitizer             *)
(***************************************************************************)
CustomFieldValues ==
    {Null, Undefined, Num(0), Str(<<"$", "a">>), Obj(1, <<>>), Arr(1, <<>>),
     Obj(1, << <<<<"$", "a">>, Str(<<"$", "b">>)>> >>), Arr(1, <<Str(<<"$", "a">>)>>)}

CustomRequests ==
    {[kind |-> "req", headers |-> h, get |-> <<>>, chain |-> ch, raised |-> FALSE,
      fields |-> [body |-> b, query |-> q, params |-> pa]] :
        h \in {<<>>, <<Str(<<"j">>)>>, <<Str(<<"x">>)>>},
        ch \in {PlainChain, QueryGetterChain},
        b \in CustomFieldValues, q \in CustomFieldValues, pa \in CustomFieldValues}

CustomUserOptions ==
    {[sanitizeObjects |-> so, customSanitizer |-> cs] :
        so \in {<<"body", "query">>, <<"params", "query", "body">>, <<"params">>},
        cs \in {<<>>, <<"identity">>, <<"tags">>}}

InitCustom ==
    /\ options \in {resolveOptions(u) : u \in CustomUserOptions}
    /\ request \in CustomRequests
    /\ input = request
    /\ output = NoValue
    /\ again = NoValue
    /\ events = <<>>
    /\ calls = 0
    /\ pc = "start"

NextCustom == CallHandleRequest

SpecCustom == InitCustom /\ [][NextCustom]_vars

\* the values handleRequest leaves alone
nothingToSanitize(v) == v.kind \in {"null", "undef"} \/ (isPlainObject(v) /\ v.pairs = <<>>)
\* the loop of handleRequest comes to the field
reached(f) ==
    /\ \E i \in 1..Len(options.sanitizeObjects) : options.sanitizeObjects[i] = f
    /\ f = "body" => shouldSanitizeContentType(input, options.contentTypes)
\* [...data] / { ...data } / data
copyOf(v) == IF isArray(v) THEN Arr(Fresh, v.items)
             ELSE IF isPlainObject(v) THEN Obj(Fresh, v.pairs) ELSE v

\* C25: after handleRequest a field holding null, undefined or an empty plain
\* mapping holds the identical value; any other field the loop comes to holds,
\* when a custom sanitizer is configured, exactly what the custom sanitizer
\* returns for the shallow copy of the field's value and the resolved
\* configuration, with no built-in sanitization of it.
C25_SkipOrCustom ==
    pc = "done" =>
        \A f \in {"body", "query", "params"} :
            /\ nothingToSanitize(input.fields[f]) => request.fields[f] = input.fields[f]
            /\ (reached(f) /\ ~nothingToSanitize(input.fields[f])
                    /\ options.customSanitizer # <<>>) =>
                 request.fields[f] = customSanitizer(options.customSanitizer[1],
                                                     copyOf(input.fields[f]), options)

\* a query behind a getter holding { $a: '$b' }: the custom sanitizer's result,
\* which holds the copy with its dangerous key and the configuration, is the
\* new query; the empty body is the one it was
C25_Witness ==
    /\ pc = "done"
    /\ options.customSanitizer = <<"tags">>
    /\ input.chain = QueryGetterChain
    /\ input.fields.body = Obj(1, <<>>) /\ request.fields.body = Obj(1, <<>>)
    /\ reached("query")
    /\ request.fields.query
         = Obj(Fresh, << <<<<"d">>, Obj(Fresh, << <<<<"$", "a">>, Str(<<"$", "b">>)>> >>)>>,
                         <<<<"o">>, [kind |-> "options", is |-> options]>> >>)

(***************************************************************************)
(* One resolved configuration under any sequence of calls of the engine    *)
(***************************************************************************)
ConfigUserOptions ==
    {[mode |-> "manual", removeMatches |-> rm, patterns |-> p,
      skipRoutes |-> <<Str(<<"/", "a">>), RegExp(1, <<"a">>, TRUE, 0)>>] :
        rm \in BOOLEAN, p \in {PATTERNS, <<{"@"}>>}}

ConfigRequests ==
    {[kind |-> "req", headers |-> <<>>, get |-> <<>>, chain |-> ch, raised |-> FALSE,
      fields |-> [body |-> Obj(1, << <<<<"a", "$">>, Str(<<"a", "$">>)>> >>),
                  query |-> q, params |-> Undefined]] :
        ch \in {PlainChain, QueryGetterChain},
        q \in {Null, Obj(2, << <<<<"$", "a">>, Str(<<"a", "@">>)>> >>)}}

ConfigStrings == {Str(<<"a">>), Str(<<"a", "$">>), Email}
ConfigObjects == {Obj(1, << <<k, Str(<<"$", "a">>)>> >>) : k \in {<<"a">>, <<"a", "$">>}}
ConfigPaths == {Str(<<"/", "a">>), Str(<<"/", "b", "a">>), Str(<<"/", "b">>)}

\* the state after a call of one of the sanitizers on the configuration
Returned(fn, value, r) ==
    /\ calls < MaxCalls
    /\ input' = [fn |-> fn, value |-> value, isValue |-> FALSE, depth |-> 0,
                 lastIndex |-> options._lastIndex]
    /\ output' = r.value
    /\ Leave(r.st)
    /\ calls' = calls + 1
    /\ pc' = "done"
    /\ UNCHANGED <<again, request>>

CallSanitizeStringOn ==
    \E str \in ConfigStrings :
        Returned("sanitizeString", str, fxSanitizeString(str, options, FALSE, shared))

CallSanitizeArrayOn ==
    \E str \in ConfigStrings :
        Returned("sanitizeArray", Arr(1, <<str>>),
                 fxSanitizeArray(Arr(1, <<str>>), options, 0, shared))

CallSanitizeObjectOn ==
    \E obj \in ConfigObjects :
        Returned("sanitizeObject", obj, fxSanitizeObject(obj, options, 0, shared))

CallSanitizeValueOn ==
    \E value \in ConfigStrings \cup ConfigObjects :
        Returned("sanitizeValue", value, fxSanitizeValue(value, options, FALSE, 0, shared))

CallShouldSkipRouteOn ==
    /\ calls < MaxCalls
    /\ \E requestPath \in ConfigPaths :
        LET r == shouldSkipRoute(requestPath, options.skipRoutes)
        IN /\ input' = [fn |-> "shouldSkipRoute", value |-> requestPath, isValue |-> FALSE,
                        depth |-> 0, lastIndex |-> options._lastIndex]
           /\ output' = Bool(r.skip)
           /\ options' = [options EXCEPT !.skipRoutes.regex = r.regex]
    /\ calls' = calls + 1
    /\ pc' = "done"
    /\ UNCHANGED <<again, request, events>>

CallHandleRequestOn ==
    /\ calls < MaxCalls
    /\ LET r == fxHandleRequest(request, options, shared)
       IN /\ request' = r.request
          /\ Leave(r.st)
    /\ input' = [fn |-> "handleRequest", value |-> Undefined, isValue |-> FALSE,
                 depth |-> 0, lastIndex |-> options._lastIndex]
    /\ calls' = calls + 1
    /\ pc' = "done"
    /\ UNCHANGED <<output, again>>

\* a closure that keeps the configuration it resolved for the overrides
CallSanitizeMethod_keepsOverrides ==
    /\ calls < MaxCalls
    /\ \E customOpts \in Overrides :
        LET finalOpts == finalOptions("express", again.userOptions, options, customOpts)
            handled == fxHandleRequest(request, finalOpts,
                                       [lastIndex |-> finalOpts._lastIndex, events |-> events,
                                        raised |-> <<>>])
        IN /\ request' = handled.request
           /\ options' = [finalOpts EXCEPT !._lastIndex = handled.st.lastIndex]
           /\ events' = handled.st.events
           /\ again' = [again EXCEPT !.customOpts = customOpts]
    /\ calls' = calls + 1
    /\ pc' = "sanitize"
    /\ UNCHANGED <<input, output>>

\* req.sanitize(customOpts) of the Express middleware in manual mode
CallSanitizeMethod ==
    /\ calls < MaxCalls
    /\ \E customOpts \in Overrides :
        LET finalOpts == finalOptions("express", again.userOptions, options, customOpts)
            ownOpts == ~overridden("express", customOpts)
            handled == fxHandleRequest(request, finalOpts,
                                       IF ownOpts THEN shared
                                       ELSE [lastIndex |-> 0, events |-> events,
                                             raised |-> <<>>])
        IN /\ request' = handled.request
           /\ options' = IF ownOpts THEN [options EXCEPT !._lastIndex = handled.st.lastIndex]
                         ELSE options
           /\ events' = handled.st.events
           /\ again' = [again EXCEPT !.customOpts = customOpts]
    /\ calls' = calls + 1
    /\ pc' = "sanitize"
    /\ UNCHANGED <<input, output>>

\* again holds the options of the registration, which the closure of
\* req.sanitize keeps, and the argument of the last req.sanitize call
InitConfig ==
    /\ \E u \in ConfigUserOptions :
        /\ options = resolveOptions(u)
        /\ again = [userOptions |-> u, customOpts |-> <<>>]
    /\ input = [fn |-> "none", value |-> Undefined, isValue |-> FALSE, depth |-> 0,
                lastIndex |-> 0]
    /\ request \in ConfigRequests
    /\ output = NoValue
    /\ events = <<>>
    /\ calls = 0
    /\ pc = "start"

NextConfig ==
    \/ CallSanitizeStringOn
    \/ CallSanitizeArrayOn
    \/ CallSanitizeObjectOn
    \/ CallSanitizeValueOn
    \/ CallHandleRequestOn
    \/ CallShouldSkipRouteOn
    \/ CallSanitizeMethod

SpecConfig == InitConfig /\ [][NextConfig]_vars

\* a configuration with the cursors of its pattern matchers at 0
cursorsReset(o) ==
    [o EXCEPT !._lastIndex = 0,
              !.skipRoutes.regex = [i \in 1..Len(@) |-> [@[i] EXCEPT !.lastIndex = 0]]]

\* C26: whatever calls of sanitizeString, sanitizeArray, sanitizeObject,
\* sanitizeValue, handleRequest and shouldSkipRoute are made on a resolved
\* configuration, it stays what resolveOptions returned but for the cursors of
\* its pattern matchers; req.sanitize with overrides leaves it as it is, cursors
\* included.
C26_ConfigurationReadOnly ==
    /\ [](cursorsReset(options) = resolveOptions(again.userOptions))
    /\ [][(pc' = "sanitize" /\ again'.customOpts # <<>>) => options' = options]_vars

\* both cursors have moved and a sanitize call with overrides has just been made
C26_Witness ==
    /\ pc = "sanitize"
    /\ again.customOpts = <<[replaceWith |-> <<"_">>]>>
    /\ options._lastIndex > 0
    /\ options.skipRoutes.regex[1].lastIndex > 0
    /\ request.fields.body = Obj(Fresh, <<>>)

(***************************************************************************)
(* The objects of the input after a call: an array or mapping is the       *)
(* object its ref names, and an object a sanitizer allocates has the ref   *)
(* Fresh; an object of the input that is found changed in what a call      *)
(* returns has been written to.                                            *)
(***************************************************************************)
RECURSIVE containersOf(_)
containersOf(v) ==
    IF ~(v.kind \in {"arr", "obj"}) THEN {}
    ELSE {v} \cup UNION {containersOf(Entries(v)[i]) : i \in 1..Len(Entries(v))}

\* what the caller holds after the call
returned ==
    IF pc = "handleRequest" THEN {request.fields[f] : f \in {"body", "query", "params"}}
    ELSE {output}

\* C27: after sanitizeValue, sanitizeArray, sanitizeObject or handleRequest every
\* array and mapping of the input tree that is reachable from the result is the
\* one of the input, with the keys, elements and values it had; the value a
\* sanitizer returns for an array or mapping it works on, and the value
\* handleRequest binds to a field it sanitizes, is a newly built container.
C27_InputTreeUntouched ==
    /\ pc # "start" =>
            \A r \in returned : \A c \in containersOf(r) :
                c.ref # Fresh => c \in containersOf(input.value)
    /\ (pc = "handleRequest" /\ isContainer(input.value) /\ Entries(input.value) # <<>>) =>
            /\ request.fields.body.ref = Fresh
            /\ request.fields.query.ref = Fresh
            /\ request.fields.body # input.value

\* [{ a: ['$a'] }] under maxDepth 2: the result is a new array holding a new
\* mapping, which holds the input's inner array with '$a' still in it
C27_Witness ==
    /\ pc = "handleRequest"
    /\ input.value = Arr(1, <<Obj(2, << <<<<"a">>, Arr(3, <<Str(<<"$", "a">>)>>)>> >>)>>)
    /\ request.fields.body
         = Arr(Fresh, <<Obj(Fresh, << <<<<"a">>, Arr(3, <<Str(<<"$", "a">>)>>)>> >>)>>)

(***************************************************************************)
(* sanitizeObject on mappings whose keys sanitize to one key               *)
(***************************************************************************)
CollideValues == {Str(<<"a">>), Str(<<"b">>), Str(<<"$">>), Num(1), Email}

CollideObjects ==
    {Obj(1, << <<ks[1], v1>>, <<ks[2], v2>> >>) :
        ks \in {k \in {<<"$", "a">>, <<"a">>, <<"A">>} \X {<<"a">>, <<"a", "$">>, <<"b">>} :
                    k[1] # k[2]},
        v1 \in CollideValues, v2 \in CollideValues}
    \cup {Obj(1, << <<ks[1], v1>>, <<ks[2], v2>>, <<ks[3], v3>> >>) :
            ks \in {<< <<"$", "a">>, <<"a">>, <<"a", "$">> >>,
                    << <<"a">>, <<"a", "$">>, <<"$", "a">> >>,
                    << <<"a", "$">>, <<"$", "a">>, <<"a">> >>},
            v1 \in {Str(<<"a">>), Str(<<"$">>)}, v2 \in {Str(<<"b">>), Str(<<"$">>)},
            v3 \in {Num(1), Str(<<"$">>)}}

CollideUserOptions ==
    {[removeMatches |-> rm, removeEmpty |-> re, allowedKeys |-> ak, deniedKeys |-> dk,
      stringOptions |-> [lowercase |-> l]] :
        rm \in BOOLEAN, re \in BOOLEAN, l \in BOOLEAN,
        ak \in {<<>>, << <<"$", "a">>, <<"A">>, <<"b">> >>},
        dk \in {<<>>, << <<"a">> >>}}

InitCollide ==
    /\ options \in {resolveOptions(u) : u \in CollideUserOptions}
    /\ input \in {[value |-> v, isValue |-> FALSE, depth |-> 0] : v \in CollideObjects}
    /\ output = NoValue
    /\ again = NoValue
    /\ events = <<>>
    /\ calls = 0
    /\ request = NoRequest
    /\ pc = "start"

NextCollide == CallSanitizeObject

SpecCollide == InitCollide /\ [][NextCollide]_vars

\* the pairs of the input whose key sanitizes to key, and those of them that
\* sanitizeObject writes (a pair is written when the mapping that holds it alone
\* does not come out empty)
sameKey(key) ==
    {i \in 1..Len(input.value.pairs) :
        sanitizeString(Str(input.value.pairs[i][1]), options, FALSE).s = key}
writes(i) ==
    sanitizeObject(Obj(1, <<input.value.pairs[i]>>), options, input.depth).pairs # <<>>
last(indexes) == CHOOSE i \in indexes : \A j \in indexes : j <= i
sanitizedValueAt(i) == sanitizeValue(input.value.pairs[i][2], options, TRUE, input.depth)
emittedOnce ==
    /\ Len(output.pairs) <= Len(input.value.pairs)
    /\ \A i, j \in 1..Len(output.pairs) : output.pairs[i][1] = output.pairs[j][1] => i = j

\* C28 as stated: a key that two or more keys of the input sanitize to is
\* emitted once, with the sanitized value of the last of them in enumeration
\* order; the output has no more keys than the input and no key twice.
C28_LastSameKeyWins ==
    pc = "done" =>
        /\ emittedOnce
        /\ \A j \in 1..Len(output.pairs) :
            LET same == sameKey(output.pairs[j][1])
            IN Cardinality(same) >= 2 => output.pairs[j][2] = sanitizedValueAt(last(same))

\* C28: a key that two or more keys of the input sanitize to is emitted at most
\* once, with the sanitized value of the last of them whose pair is written
\* (not dropped by deniedKeys, allowedKeys, removeMatches or removeEmpty), and
\* is not emitted when none of them is written; the output has no more keys
\* than the input and no key twice.
C28_LastWrittenSameKeyWins ==
    pc = "done" =>
        /\ emittedOnce
        /\ \A i \in 1..Len(input.value.pairs) :
            LET key == sanitizeString(Str(input.value.pairs[i][1]), options, FALSE).s
                written == {w \in sameKey(key) : writes(w)}
                emitted == {j \in 1..Len(output.pairs) : output.pairs[j][1] = key}
            IN IF written = {} THEN emitted = {}
               ELSE \E j \in emitted : output.pairs[j][2] = sanitizedValueAt(last(written))

\* { $a: 'a', a: 'b', a$: '$' } under removeEmpty: three keys sanitize to 'a',
\* the last is dropped for its empty value, and 'a' holds the second's value
C28_Witness ==
    /\ pc = "done"
    /\ options.removeEmpty /\ ~options.removeMatches
    /\ input.value = Obj(1, << <<<<"$", "a">>, Str(<<"a">>)>>, <<<<"a">>, Str(<<"b">>)>>,
                               <<<<"a", "$">>, Str(<<"$">>)>> >>)
    /\ output = Obj(Fresh, << <<<<"a">>, Str(<<"b">>)>> >>)

(***************************************************************************)
(* A hook or custom sanitizer that calls the engine on the configuration   *)
(* it runs under                                                           *)
(***************************************************************************)
ReenterValues ==
    {Obj(1, << <<k1, v1>>, <<k2, v2>> >>) :
        k1 \in {<<"a">>, <<"$", "a">>}, k2 \in {<<"b">>, <<"$", "b">>},
        v1 \in {Str(<<" ", "a">>), Str(<<"$", "a">>), Str(<<"a">>)},
        v2 \in {Str(<<"$", "c">>), Str(<<"c", " ">>), Num(1)}}
    \cup {Arr(1, <<Obj(2, << <<<<"a">>, v1>> >>), v2>>) :
            v1 \in {Str(<<" ", "a">>), Str(<<"$", "a">>)},
            v2 \in {Str(<<"$", "c">>), Obj(3, << <<<<"$", "b">>, Str(<<"c", "$">>)>> >>)}}

ReenterUserOptions ==
    {[removeMatches |-> rm, removeEmpty |-> re, stringOptions |-> [trim |-> t],
      onSanitize |-> <<"reenters">>, customSanitizer |-> cs] :
        rm \in BOOLEAN, re \in BOOLEAN, t \in BOOLEAN, cs \in {<<>>, <<"reenters">>}}

\* the configuration with a hook that only takes note and a custom sanitizer
\* that only returns its argument
quiet(opts) ==
    [opts EXCEPT !.onSanitize = IF @ = <<>> THEN @ ELSE <<"hook">>,
                 !.customSanitizer = IF @ = <<>> THEN @ ELSE <<"identity">>]

\* output is what the call returns, again what it returns from the same state
\* under the quiet hooks
CallSanitizeValueReentered ==
    /\ pc = "start"
    /\ LET r == fxSanitizeValue(input.value, options, FALSE, 0, shared)
       IN /\ output' = r.value
          /\ Leave(r.st)
    /\ again' = fxSanitizeValue(input.value, quiet(options), FALSE, 0, shared).value
    /\ pc' = "sanitizeValue"
    /\ UNCHANGED <<input, request, calls>>

CallHandleRequestReentered ==
    /\ pc = "start"
    /\ LET r == fxHandleRequest(request, options, shared)
       IN /\ request' = r.request
          /\ output' = Obj(Fresh, << <<<<"b">>, r.request.fields.body>>,
                                     <<<<"q">>, r.request.fields.query>> >>)
          /\ Leave(r.st)
    /\ LET r == fxHandleRequest(request, quiet(options), shared)
       IN again' = Obj(Fresh, << <<<<"b">>, r.request.fields.body>>,
                                 <<<<"q">>, r.request.fields.query>> >>)
    /\ pc' = "handleRequest"
    /\ UNCHANGED <<input, calls>>

\* the cursor is where an earlier call left it
InitReenter ==
    /\ options \in {[resolveOptions(u) EXCEPT !._lastIndex = c] :
                        u \in ReenterUserOptions, c \in {0, 1}}
    /\ input \in {[value |-> v] : v \in ReenterValues}
    /\ request = [kind |-> "req", headers |-> <<>>, get |-> <<>>, chain |-> PlainChain,
                  raised |-> FALSE,
                  fields |-> [body |-> input.value, query |-> input.value, params |-> Undefined]]
    /\ output = NoValue
    /\ again = NoValue
    /\ events = <<>>
    /\ calls = 0
    /\ pc = "start"

NextReenter == CallSanitizeValueReentered \/ CallHandleRequestReentered

SpecReenter == InitReenter /\ [][NextReenter]_vars

\* C29: a sanitizeValue or handleRequest call whose audit hook or custom
\* sanitizer calls sanitizeValue on the same configuration, and so moves the
\* cursor of the combined pattern, returns what it returns when the hook only
\* takes note and the custom sanitizer only returns its argument.
C29_ReentrancyHarmless ==
    pc \in {"sanitizeValue", "handleRequest"} => output = again

\* { a: ' a', $b: 'c ' } under removeMatches and trim: the hook ran for the first
\* pair, its call left the cursor behind a match, and the second pair was
\* still dropped for its key
C29_Witness ==
    /\ pc = "sanitizeValue"
    /\ options.removeMatches /\ options.stringOptions.trim
    /\ input.value = Obj(1, << <<<<"a">>, Str(<<" ", "a">>)>>,
                               <<<<"$", "b">>, Str(<<"c", " ">>)>> >>)
    /\ Len(events) = 1
    /\ output = Obj(Fresh, << <<<<"a">>, Str(<<"a">>)>> >>)

(***************************************************************************)
(* The Express middleware and the Fastify preHandler hook step by step:    *)
(* the skip test, handleRequest, and the call of the continuation.  calls  *)
(* counts the calls of next / done, output holds what handleRequest raised.*)
(***************************************************************************)
FrozenQueryChain ==
    <<[OwnData EXCEPT !.query = <<[writable |-> FALSE, set |-> "none",
                                   enumerable |-> TRUE, configurable |-> FALSE]>>],
      NoProperties>>

ContinueRequests ==
    {[kind |-> "req", headers |-> <<>>, get |-> <<>>, chain |-> ch, raised |-> FALSE,
      sanitize |-> FALSE, url |-> Str(u), path |-> <<>>,
      fields |-> [body |-> b, query |-> Obj(2, << <<<<"x">>, Str(<<"$", "a">>)>> >>),
                  params |-> Undefined]] :
        u \in {<<"/", "a">>, <<"/", "b">>, <<"/", "b", "?", "x">>},
        ch \in {PlainChain, QueryGetterChain, FrozenQueryChain},
        b \in {Undefined, Str(<<"a">>), Obj(1, << <<<<"$", "a">>, Str(<<"$", "b">>)>> >>)}}

ContinueUserOptions ==
    {[mode |-> mo, skipRoutes |-> sr, onSanitize |-> on, customSanitizer |-> cs] :
        mo \in {"auto", "manual"},
        sr \in {<<>>, <<Str(<<"/", "a">>)>>, <<RegExp(1, <<"b">>, TRUE, 0)>>},
        on \in {<<>>, <<"hook">>, <<"throws">>},
        cs \in {<<>>, <<"strict">>}}

\* the hook is added in auto mode only; the Express middleware runs in both modes
InitContinue ==
    /\ \E framework \in {"express", "fastify"}, u \in ContinueUserOptions,
          req \in ContinueRequests :
        /\ framework = "fastify" => u.mode = "auto"
        /\ input = [framework |-> framework, userOptions |-> u, request |-> req]
        /\ options = IF framework = "express" THEN resolveOptions(u) ELSE fastifyOptions(u)
        /\ request = req
    /\ output = <<>>
    /\ again = <<>>
    /\ events = <<>>
    /\ calls = 0
    /\ pc = "arrive"

\* if (shouldSkipRoute(requestPath, opts.skipRoutes, opts.debug))
TestSkipRoute ==
    /\ pc = "arrive"
    /\ LET r == shouldSkipRoute(IF input.framework = "express" THEN requestPathOf(request)
                                ELSE request.url,
                                options.skipRoutes)
       IN /\ options' = [options EXCEPT !.skipRoutes.regex = r.regex]
          /\ pc' = IF r.skip THEN "skip" ELSE options.mode
    /\ UNCHANGED <<input, output, again, request, events, calls>>

\* a skip branch that calls the continuation and goes on
ReturnNext_noReturn ==
    /\ pc = "skip"
    /\ calls' = calls + 1
    /\ pc' = options.mode
    /\ UNCHANGED <<options, input, output, again, request, events>>

\* return next() / return done()
ReturnNext ==
    /\ pc = "skip"
    /\ calls' = calls + 1
    /\ pc' = "returned"
    /\ UNCHANGED <<options, input, output, again, request, events>>

\* handleRequest(req, opts): it returns, or what it raises leaves the middleware
HandleRequestStep ==
    /\ pc = "auto"
    /\ LET r == fxHandleRequest(request, options, shared)
       IN /\ request' = r.request
          /\ output' = r.st.raised
          /\ Leave(r.st)
          /\ pc' = IF r.st.raised # <<>> THEN "thrown" ELSE "next"
    /\ UNCHANGED <<input, again, calls>>

\* req.sanitize = (customOpts) => { ... }
AttachSanitize ==
    /\ pc = "manual"
    /\ request' = [request EXCEPT !.sanitize = TRUE]
    /\ pc' = "next"
    /\ UNCHANGED <<options, input, output, again, events, calls>>

\* next() / done() at the end of the middleware
CallNext ==
    /\ pc = "next"
    /\ calls' = calls + 1
    /\ pc' = "returned"
    /\ UNCHANGED <<options, input, output, again, request, events>>

NextContinue ==
    \/ TestSkipRoute
    \/ ReturnNext
    \/ HandleRequestStep
    \/ AttachSanitize
    \/ CallNext

\* the middleware is one synchronous function: every step that can be taken is
\* taken
SpecContinue == InitContinue /\ [][NextContinue]_vars /\ WF_vars(NextContinue)

hookThrew == output # <<>> /\ output[1].name = "Error"
\* the continuation is not called twice, and not while handleRequest is still
\* to be called or has raised
calledInOrder ==
    /\ calls <= 1
    /\ calls = 1 => pc = "returned"
    /\ pc \in {"auto", "manual", "next", "thrown"} => calls = 0

====
